---- MODULE Spec2Model ----
(***************************************************************************)
(* Model of survey_analysis.core.crosstab and survey_analysis.core.stats  *)
(* (batch part), with the lookup of survey_analysis.base.config.           *)
(*                                                                         *)
(* Conventions.                                                            *)
(*  - A cell of the dataset is a record [kind, val]: kind "na" is a        *)
(*    missing value (None/NaN), kind "str" a text value whose characters   *)
(*    are the elements of val, kind "num" a non-text, non-missing value.   *)
(*  - A category label is the character sequence of a text cell.           *)
(*  - The reserved margins label of the source is a non-ASCII literal; it  *)
(*    is written <<"Total">> here, a token no data cell contains.  The     *)
(*    default delimiter of the source is non-ASCII too and is written ",". *)
(*  - A table is [index, columns, values]: the row labels, the column      *)
(*    labels and the grid of values in row-major order.  A count table     *)
(*    holds integers, a normalized table holds exact fractions [num, den]  *)
(*    (the percentage num/den); binary floating point is not modelled.     *)
(*  - An operation returns [status |-> "ok", ...] or, when it raises,      *)
(*    [status |-> "raised", exc, msg, name].                               *)
(***************************************************************************)
EXTENDS Integers, Sequences, FiniteSets, TLC

VARIABLES
    df,              \* the caller's dataset: column name -> sequence of cells
    questions,       \* config.questions: identifier -> column name
    crosstab_tiers,  \* config.crosstab_tiers: tier name -> sequence of pairs
    pandas2,         \* the installed pandas is >= 2.0
    filters,         \* warnings.filters, first match wins
    shown,           \* the warnings that passed the filters, in order
    ct,              \* the table the caller holds (result of the last build)
    call,            \* the last call: operation and arguments
    ret              \* what the last call returned or raised

vars == <<df, questions, crosstab_tiers, pandas2, filters, shown, ct, call, ret>>

----------------------------------------------------------------------------
(* Bounds *)

MaxRows == 3          \* respondents of a dataset of categorical columns
MaxRespondents == 2   \* respondents of a dataset with a multi-select column
MaxPairs == 2         \* pairs declared under one tier / passed to a batch

----------------------------------------------------------------------------
(* Cells and labels *)

NA == [kind |-> "na", val |-> <<>>]
Str(s) == [kind |-> "str", val |-> s]
Num(s) == [kind |-> "num", val |-> s]

isna(c) == c.kind = "na"
isinstance_str(c) == c.kind = "str"

MarginsName == <<"Total">>
Delimiter == ","

\* Characters in code-point order.
CharOrder == <<" ", ",", "7", ";", "A", "B", "C", "x", "y", "z">>

Whitespace == {" "}

CharRank(ch) == CHOOSE i \in 1..Len(CharOrder) : CharOrder[i] = ch

RECURSIVE LexLess(_, _)
LexLess(s, t) ==
    IF t = <<>> THEN FALSE
    ELSE IF s = <<>> THEN TRUE
    ELSE IF CharRank(Head(s)) < CharRank(Head(t)) THEN TRUE
    ELSE IF CharRank(Head(s)) > CharRank(Head(t)) THEN FALSE
    ELSE LexLess(Tail(s), Tail(t))

MinLabel(S) == CHOOSE m \in S : \A o \in S : o = m \/ LexLess(m, o)

RECURSIVE SortLabels(_)
SortLabels(S) ==
    IF S = {} THEN <<>>
    ELSE LET m == MinLabel(S) IN <<m>> \o SortLabels(S \ {m})

RECURSIVE SumSeq(_)
SumSeq(s) == IF s = <<>> THEN 0 ELSE Head(s) + SumSeq(Tail(s))

Range(s) == {s[i] : i \in 1..Len(s)}

\* pd.DataFrame()
EmptyDataFrame ==
    [index |-> <<>>, columns |-> <<>>, values |-> <<>>, dtype |-> "object"]

Raised(exc, msg, name) ==
    [status |-> "raised", exc |-> exc, msg |-> msg, name |-> name]

----------------------------------------------------------------------------
(* base/config.py *)

\* a number as an exact fraction
Frac(n, d) == [num |-> n, den |-> d]

\* SurveyConfig.alpha, also the default of apply_fdr_correction
DefaultAlpha == Frac(5, 100)

NoConfig == [present |-> FALSE, questions |-> <<>>, crosstab_tiers |-> <<>>]
Config(q, tiers) ==
    [present |-> TRUE, questions |-> q, crosstab_tiers |-> tiers,
     alpha |-> DefaultAlpha]

\* Mutant: an identifier without a mapping resolves to no column.
get_column_name_without_fallback(q, question_id) ==
    IF question_id \in DOMAIN q THEN q[question_id] ELSE ""

\* SurveyConfig.get_column_name: dict.get(question_id, question_id)
get_column_name(q, question_id) ==
    IF question_id \in DOMAIN q THEN q[question_id] ELSE question_id

\* "config.get_column_name(v) if config else v"
ResolveColumn(config, v) ==
    IF config.present THEN get_column_name(config.questions, v) ELSE v

----------------------------------------------------------------------------
(* pandas.crosstab, as core/crosstab.py calls it *)

\* Mutant: only a missing row cell drops the row.
RECURSIVE ObservationsRowOnly(_, _)
ObservationsRowOnly(rowc, colc) ==
    IF rowc = <<>> THEN <<>>
    ELSE (IF isna(Head(rowc)) THEN <<>>
          ELSE << <<Head(rowc).val, Head(colc).val>> >>)
         \o ObservationsRowOnly(Tail(rowc), Tail(colc))

\* dropna=True: the observations are the rows in which both cells are present.
RECURSIVE Observations(_, _)
Observations(rowc, colc) ==
    IF rowc = <<>> THEN <<>>
    ELSE (IF isna(Head(rowc)) \/ isna(Head(colc)) THEN <<>>
          ELSE << <<Head(rowc).val, Head(colc).val>> >>)
         \o Observations(Tail(rowc), Tail(colc))

\* aggfunc=len over the group (r, c) of the observations
RECURSIVE CountCell(_, _, _)
CountCell(obs, r, c) ==
    IF obs = <<>> THEN 0
    ELSE (IF Head(obs)[1] = r /\ Head(obs)[2] = c THEN 1 ELSE 0)
         + CountCell(Tail(obs), r, c)

\* the margin of one label: the size of its group in the observations
RECURSIVE CountLabel(_, _, _)
CountLabel(obs, k, l) ==
    IF obs = <<>> THEN 0
    ELSE (IF Head(obs)[k] = l THEN 1 ELSE 0) + CountLabel(Tail(obs), k, l)

\* margins=True: a reserved column of group sizes per row label, a reserved
\* row of group sizes per column label, and the number of observations in
\* the corner.
AddMargins(t, obs) ==
    [index |-> t.index \o <<MarginsName>>,
     columns |-> t.columns \o <<MarginsName>>,
     dtype |-> t.dtype,
     values |->
        [i \in 1..Len(t.index) |->
            t.values[i] \o <<CountLabel(obs, 1, t.index[i])>>]
        \o << [j \in 1..Len(t.columns) |-> CountLabel(obs, 2, t.columns[j])]
              \o <<Len(obs)>> >>]

\* pd.crosstab(df[row_col], df[col_col], margins=margins, margins_name=...).
\* Labels are sorted.  With margins and no observation at all, pandas
\* before 2.0 raises ValueError ("No objects to concatenate"); from 2.0 on
\* it returns the empty table, without margins.
pd_crosstab(rowc, colc, margins) ==
    LET obs == Observations(rowc, colc)
        idx == SortLabels({o[1] : o \in Range(obs)})
        cols == SortLabels({o[2] : o \in Range(obs)})
        t == [index |-> idx, columns |-> cols, dtype |-> "int64",
              values |-> [i \in 1..Len(idx) |->
                            [j \in 1..Len(cols) |-> CountCell(obs, idx[i], cols[j])]]]
    IN  IF ~margins THEN [status |-> "ok", table |-> t]
        ELSE IF obs = <<>>
        THEN (IF pandas2 THEN [status |-> "ok", table |-> t]
              ELSE Raised("ValueError", "No objects to concatenate", ""))
        ELSE [status |-> "ok", table |-> AddMargins(t, obs)]

----------------------------------------------------------------------------
(* core/crosstab.py *)

ColumnSum(t, j) == SumSeq([i \in 1..Len(t.index) |-> t.values[i][j]])
RowSum(t, i) == SumSeq(t.values[i])

\* Mutant: every option divides by the column sums.
NormalizeByColumns(t, normalize) ==
    [t EXCEPT !.dtype = "float64", !.values =
        [i \in 1..Len(t.index) |->
            [j \in 1..Len(t.columns) |->
                Frac(t.values[i][j] * 100, ColumnSum(t, j))]]]

\* ct.div(ct.sum(axis=1), axis=0) * 100 for 'index', otherwise
\* ct.div(ct.sum(axis=0), axis=1) * 100
Normalize(t, normalize) ==
    [t EXCEPT !.dtype = "float64", !.values =
        [i \in 1..Len(t.index) |->
            [j \in 1..Len(t.columns) |->
                Frac(t.values[i][j] * 100,
                     IF normalize = "index" THEN RowSum(t, i)
                     ELSE ColumnSum(t, j))]]]

\* Mutant: the error names the identifier passed, not the resolved column.
create_crosstab_names_identifier(d, row_var, col_var, config, normalize, margins) ==
    LET row_col == ResolveColumn(config, row_var)
        col_col == ResolveColumn(config, col_var)
    IN  IF row_col \notin DOMAIN d
        THEN Raised("ValueError", "ColumnNotFound", row_var) @@ [counted |-> FALSE]
        ELSE IF col_col \notin DOMAIN d
        THEN Raised("ValueError", "ColumnNotFound", col_var) @@ [counted |-> FALSE]
        ELSE LET r == pd_crosstab(d[row_col], d[col_col], margins)
             IN  IF r.status = "raised" THEN r @@ [counted |-> TRUE]
                 ELSE [status |-> "ok", counted |-> TRUE,
                       table |-> IF normalize # "None"
                                 THEN Normalize(r.table, normalize)
                                 ELSE r.table]

\* create_crosstab.  counted tells whether pd.crosstab was reached.
create_crosstab(d, row_var, col_var, config, normalize, margins) ==
    LET row_col == ResolveColumn(config, row_var)
        col_col == ResolveColumn(config, col_var)
    IN  IF row_col \notin DOMAIN d
        THEN Raised("ValueError", "ColumnNotFound", row_col) @@ [counted |-> FALSE]
        ELSE IF col_col \notin DOMAIN d
        THEN Raised("ValueError", "ColumnNotFound", col_col) @@ [counted |-> FALSE]
        ELSE LET r == pd_crosstab(d[row_col], d[col_col], margins)
             IN  IF r.status = "raised" THEN r @@ [counted |-> TRUE]
                 ELSE [status |-> "ok", counted |-> TRUE,
                       table |-> IF normalize # "None"
                                 THEN Normalize(r.table, normalize)
                                 ELSE r.table]

create_crosstab_with_totals(d, row_var, col_var, config) ==
    create_crosstab(d, row_var, col_var, config, "None", TRUE)

create_crosstab_percentage(d, row_var, col_var, config, by) ==
    create_crosstab(d, row_var, col_var, config,
                    IF by = "row" THEN "index" ELSE "columns", FALSE)

\* DataFrame.drop(label) / drop(label, axis=1)
Keep(labels, label) == {k \in 1..Len(labels) : labels[k] # label}

RECURSIVE Ascending(_)
Ascending(S) ==
    IF S = {} THEN <<>>
    ELSE LET m == CHOOSE x \in S : \A y \in S : x <= y
         IN  <<m>> \o Ascending(S \ {m})

DropRow(t, label) ==
    LET keep == Ascending(Keep(t.index, label))
    IN  [t EXCEPT !.index = [k \in 1..Len(keep) |-> t.index[keep[k]]],
                  !.values = [k \in 1..Len(keep) |-> t.values[keep[k]]]]

DropColumn(t, label) ==
    LET keep == Ascending(Keep(t.columns, label))
    IN  [t EXCEPT !.columns = [k \in 1..Len(keep) |-> t.columns[keep[k]]],
                  !.values = [i \in 1..Len(t.index) |->
                                [k \in 1..Len(keep) |-> t.values[i][keep[k]]]]]

\* ct_clean of get_crosstab_summary
StripMargins(t) ==
    LET t1 == IF MarginsName \in Range(t.index) THEN DropRow(t, MarginsName) ELSE t
    IN  IF MarginsName \in Range(t1.columns) THEN DropColumn(t1, MarginsName) ELSE t1

\* ndarray.values flattened in row-major (C) order
RECURSIVE Flatten(_)
Flatten(rows) == IF rows = <<>> THEN <<>> ELSE Head(rows) \o Flatten(Tail(rows))

\* Mutant: the scan also moves to an equal value (last maximum wins).
RECURSIVE ArgMaxScanLast(_, _, _)
ArgMaxScanLast(flat, i, best) ==
    IF i > Len(flat) THEN best - 1
    ELSE ArgMaxScanLast(flat, i + 1, IF flat[i] >= flat[best] THEN i ELSE best)

\* numpy argmax: one scan that moves only to a strictly greater value;
\* positions are 0-based.
RECURSIVE ArgMaxScan(_, _, _)
ArgMaxScan(flat, i, best) ==
    IF i > Len(flat) THEN best - 1
    ELSE ArgMaxScan(flat, i + 1, IF flat[i] > flat[best] THEN i ELSE best)

argmax(flat) == ArgMaxScan(flat, 2, 1)

\* get_crosstab_summary
get_crosstab_summary(t, row_var, col_var) ==
    LET ct_clean == StripMargins(t)
        flat == Flatten(ct_clean.values)
        total_n == SumSeq(flat)
        shape1 == Len(ct_clean.columns)
    IN  IF flat = <<>>
        THEN Raised("ValueError", "attempt to get argmax of an empty sequence", "")
        ELSE LET max_idx == argmax(flat)
                 max_row_idx == max_idx \div shape1
                 max_col_idx == max_idx % shape1
                 max_count == ct_clean.values[max_row_idx + 1][max_col_idx + 1]
             IN  [status |-> "ok",
                  summary |->
                    [row_var |-> row_var, col_var |-> col_var,
                     n_rows |-> Len(ct_clean.index), n_cols |-> shape1,
                     total_n |-> total_n,
                     max_cell |->
                        [row |-> ct_clean.index[max_row_idx + 1],
                         col |-> ct_clean.columns[max_col_idx + 1],
                         count |-> max_count,
                         percentage |-> IF total_n > 0
                                        THEN Frac(max_count * 100, total_n)
                                        ELSE Frac(0, 1)]]]

\* str.split(delimiter) with an explicit one-character delimiter
RECURSIVE SplitFrom(_, _, _)
SplitFrom(s, delimiter, cur) ==
    IF s = <<>> THEN <<cur>>
    ELSE IF Head(s) = delimiter
         THEN <<cur>> \o SplitFrom(Tail(s), delimiter, <<>>)
         ELSE SplitFrom(Tail(s), delimiter, Append(cur, Head(s)))

str_split(s, delimiter) == SplitFrom(s, delimiter, <<>>)

RECURSIVE lstrip(_)
lstrip(s) == IF s # <<>> /\ Head(s) \in Whitespace THEN lstrip(Tail(s)) ELSE s

RECURSIVE rstrip(_)
rstrip(s) ==
    IF s # <<>> /\ s[Len(s)] \in Whitespace
    THEN rstrip(SubSeq(s, 1, Len(s) - 1))
    ELSE s

\* Mutant: the tag is kept as split, with its surrounding whitespace.
str_strip_nothing(s) == s

\* str.strip()
str_strip(s) == rstrip(lstrip(s))

\* work_df after dropna(subset=[col_col]) and the isinstance(x, str) filter:
\* the rows, as <<row cell, column cell>>, whose column cell is text
RECURSIVE TextRows(_, _)
TextRows(rowc, colc) ==
    IF rowc = <<>> THEN <<>>
    ELSE (IF ~isna(Head(colc)) /\ isinstance_str(Head(colc))
          THEN << <<Head(rowc), Head(colc)>> >> ELSE <<>>)
         \o TextRows(Tail(rowc), Tail(colc))

\* one row of work_df exploded: a <<row cell, tag>> per element of the split
RECURSIVE ExplodeRow(_, _)
ExplodeRow(rowcell, parts) ==
    IF parts = <<>> THEN <<>>
    ELSE << <<rowcell, str_strip(Head(parts))>> >> \o ExplodeRow(rowcell, Tail(parts))

\* str.split, explode, str.strip over work_df
RECURSIVE Explode(_, _)
Explode(work, delimiter) ==
    IF work = <<>> THEN <<>>
    ELSE ExplodeRow(Head(work)[1], str_split(Head(work)[2].val, delimiter))
         \o Explode(Tail(work), delimiter)

NonEmptyTag(e) == e[2] # <<>>

\* create_multiselect_crosstab
create_multiselect_crosstab(d, row_var, col_var, config, delimiter) ==
    LET row_col == ResolveColumn(config, row_var)
        col_col == ResolveColumn(config, col_var)
    IN  IF row_col \notin DOMAIN d \/ col_col \notin DOMAIN d
        THEN Raised("ValueError", "ColumnNotFound", "")
        ELSE LET work_df == TextRows(d[row_col], d[col_col])
             IN  IF Len(work_df) = 0
                 THEN [status |-> "ok", table |-> EmptyDataFrame]
                 ELSE LET expanded_df == SelectSeq(Explode(work_df, delimiter), NonEmptyTag)
                      IN  IF Len(expanded_df) = 0
                          THEN [status |-> "ok", table |-> EmptyDataFrame]
                          ELSE pd_crosstab(
                                   [k \in 1..Len(expanded_df) |-> expanded_df[k][1]],
                                   [k \in 1..Len(expanded_df) |-> Str(expanded_df[k][2])],
                                   FALSE)

\* f"{row_var}_x_{col_var}"
Key(row_var, col_var) == row_var \o "_x_" \o col_var

\* dict.get(tier, [])
TierPairs(tiers, tier) == IF tier \in DOMAIN tiers THEN tiers[tier] ELSE <<>>

\* results[key] = ct
DictSet(dict, key, value) ==
    [k \in DOMAIN dict \cup {key} |-> IF k = key THEN value ELSE dict[k]]

UserWarning(key, e) == [category |-> "UserWarning", key |-> key, error |-> e.msg]

\* Mutant: the first failing pair ends the loop.
RECURSIVE AnalyzeLoopStopsAtFailure(_, _, _, _, _)
AnalyzeLoopStopsAtFailure(d, config, tier_pairs, results, warned) ==
    IF tier_pairs = <<>>
    THEN [status |-> "ok", results |-> results, warned |-> warned]
    ELSE LET row_var == Head(tier_pairs)[1]
             col_var == Head(tier_pairs)[2]
             key == Key(row_var, col_var)
             r == create_crosstab_with_totals(d, row_var, col_var, config)
         IN  IF r.status = "ok"
             THEN AnalyzeLoopStopsAtFailure(d, config, Tail(tier_pairs),
                                            DictSet(results, key, r.table), warned)
             ELSE [status |-> "ok", results |-> results,
                   warned |-> Append(warned, UserWarning(key, r))]

\* the for loop of analyze_crosstabs_by_tier: try the build, keep the table
\* under its key, or catch the exception and warn
RECURSIVE AnalyzeLoop(_, _, _, _, _)
AnalyzeLoop(d, config, tier_pairs, results, warned) ==
    IF tier_pairs = <<>>
    THEN [status |-> "ok", results |-> results, warned |-> warned]
    ELSE LET row_var == Head(tier_pairs)[1]
             col_var == Head(tier_pairs)[2]
             key == Key(row_var, col_var)
             r == create_crosstab_with_totals(d, row_var, col_var, config)
         IN  IF r.status = "ok"
             THEN AnalyzeLoop(d, config, Tail(tier_pairs),
                              DictSet(results, key, r.table), warned)
             ELSE AnalyzeLoop(d, config, Tail(tier_pairs), results,
                              Append(warned, UserWarning(key, r)))

\* analyze_crosstabs_by_tier; warned lists the warnings.warn calls made
analyze_crosstabs_by_tier(d, config, tier) ==
    AnalyzeLoop(d, config, TierPairs(config.crosstab_tiers, tier), <<>>, <<>>)

----------------------------------------------------------------------------
(* the warnings module *)

\* issubclass(category, filter category)
FilterMatches(f, category) == f.category = "Warning" \/ f.category = category

RECURSIVE FilterAction(_, _)
FilterAction(fs, category) ==
    IF fs = <<>> THEN "default"
    ELSE IF FilterMatches(Head(fs), category) THEN Head(fs).action
    ELSE FilterAction(Tail(fs), category)

\* warnings.warn: "ignore" drops the warning, "always" passes it on,
\* "default" passes the first warning of a text and location on
Warn(fs, sh, w) ==
    LET action == FilterAction(fs, w.category)
    IN  IF action = "ignore" THEN sh
        ELSE IF action = "always" THEN Append(sh, w)
        ELSE IF w \in Range(sh) THEN sh ELSE Append(sh, w)

RECURSIVE WarnAll(_, _, _)
WarnAll(fs, sh, ws) ==
    IF ws = <<>> THEN sh ELSE WarnAll(fs, Warn(fs, sh, Head(ws)), Tail(ws))

----------------------------------------------------------------------------
(* core/stats.py *)

\* product of a sequence of integers
RECURSIVE ProdSeq(_)
ProdSeq(s) == IF s = <<>> THEN 1 ELSE Head(s) * ProdSeq(Tail(s))

Min(x, y) == IF x <= y THEN x ELSE y
Max(x, y) == IF x >= y THEN x ELSE y

RECURSIVE GCD(_, _)
GCD(x, y) == IF y = 0 THEN x ELSE GCD(y, x % y)

\* a fraction in lowest terms
Reduced(f) ==
    LET g == GCD(IF f.num < 0 THEN -f.num ELSE f.num, f.den)
    IN  IF g = 0 THEN f ELSE Frac(f.num \div g, f.den \div g)

\* scipy.stats.chi2_contingency on an r x c table of counts without an
\* empty row or column: the expected count of cell (i, j) is r_i * c_j / N,
\* the statistic is the sum of (O - E)^2 / E; with one degree of freedom
\* every O is first moved towards E by min(0.5, |O - E|) (Yates).  The
\* statistic is computed here as an exact fraction over the denominator
\* k * N * P, P the product of all row sums and column sums.
AbsDiff(t, rs, cs, N, i, j) ==
    LET x == N * t.values[i][j] - rs[i] * cs[j]
    IN  IF x < 0 THEN -x ELSE x

Square(x) == x * x

\* N^2 (O - E)^2 of one cell, times 4 under the Yates correction
Term(dof, N, diff) ==
    IF dof = 1 THEN Square(Max(0, 2 * diff - N)) ELSE Square(diff)

Statistic(t, rs, cs, N, P, dof) ==
    [chi2 |->
        Reduced(Frac(
            SumSeq(Flatten(
                [i \in 1..Len(rs) |-> [j \in 1..Len(cs) |->
                    Term(dof, N, AbsDiff(t, rs, cs, N, i, j))
                        * (P \div (rs[i] * cs[j]))]])),
            (IF dof = 1 THEN 4 ELSE 1) * N * P)),
     dof |-> dof,
     expected |-> [i \in 1..Len(rs) |-> [j \in 1..Len(cs) |-> Frac(rs[i] * cs[j], N)]]]

StatisticOfSums(t, rs, cs) ==
    Statistic(t, rs, cs, SumSeq(rs), ProdSeq(rs) * ProdSeq(cs),
              (Len(rs) - 1) * (Len(cs) - 1))

chi2_contingency(t) ==
    StatisticOfSums(t, [i \in 1..Len(t.index) |-> RowSum(t, i)],
                       [j \in 1..Len(t.columns) |-> ColumnSum(t, j)])

\* contingency_table = pd.crosstab(df[col1], df[col2])
chi_square_table(d, col1, col2) == pd_crosstab(d[col1], d[col2], FALSE).table

\* Mutant: only a table small in both dimensions is refused.
TooSmallInBoth(shape0, shape1) == shape0 < 2 /\ shape1 < 2

\* contingency_table.shape[0] < 2 or contingency_table.shape[1] < 2
TooSmall(shape0, shape1) == shape0 < 2 \/ shape1 < 2

\* Mutant: Cramer's V without the division by n.
cramers_v_squared_without_n(chi2, n, min_dim) ==
    IF min_dim > 0 THEN Reduced(Frac(chi2.num, chi2.den * min_dim)) ELSE Frac(0, 1)

\* np.sqrt(chi2 / (n * min_dim)) if min_dim > 0 else 0, as the exact square
\* of the value
cramers_v_squared(chi2, n, min_dim) ==
    IF min_dim > 0 THEN Reduced(Frac(chi2.num, chi2.den * n * min_dim)) ELSE Frac(0, 1)

\* the p-value chi2_contingency returns: the survival function of the
\* chi-square distribution at the statistic, 1 at a statistic of 0 and
\* otherwise held as the statistic and the degrees of freedom it belongs to
sf(chi2, dof) ==
    IF chi2.num = 0 THEN Frac(1, 1) ELSE [survival_at |-> chi2, dof |-> dof]

\* the result dictionary of chi_square_test
TestResult(contingency_table, c, n, min_dim, var1, var2) ==
    [status |-> "ok", test |-> "chi_square",
     var1 |-> var1, var2 |-> var2,
     chi2 |-> c.chi2,
     p_value |-> sf(c.chi2, c.dof),
     dof |-> c.dof,
     cramers_v_sq |-> cramers_v_squared(c.chi2, n, min_dim),
     expected |-> c.expected,
     observed |-> contingency_table.values]

\* chi_square_test from the shape check on
TestOfTable(contingency_table, var1, var2) ==
    IF TooSmall(Len(contingency_table.index), Len(contingency_table.columns))
    THEN Raised("ValueError", "TableTooSmall", Key(var1, var2))
    ELSE TestResult(contingency_table, chi2_contingency(contingency_table),
                    SumSeq(Flatten(contingency_table.values)),
                    Min(Len(contingency_table.index) - 1,
                        Len(contingency_table.columns) - 1),
                    var1, var2)

\* chi_square_test.  The floating-point fields chi2 and cramers_v are held
\* exactly: chi2 as a fraction, cramers_v as the fraction cramers_v_sq, the
\* square of its exact value.
chi_square_test(d, var1, var2, config) ==
    IF ResolveColumn(config, var1) \notin DOMAIN d
    THEN Raised("ValueError", "ColumnNotFound", ResolveColumn(config, var1))
    ELSE IF ResolveColumn(config, var2) \notin DOMAIN d
    THEN Raised("ValueError", "ColumnNotFound", ResolveColumn(config, var2))
    ELSE TestOfTable(chi_square_table(d, ResolveColumn(config, var1),
                                      ResolveColumn(config, var2)), var1, var2)


\* not-a-number, as a division of zero by zero leaves it
NaN == Frac(0, 0)

isnan(x) == x.den = 0

\* Mutant: a value equal to the threshold counts as below it.
lt_or_equal(x, y) == ~isnan(x) /\ ~isnan(y) /\ x.num * y.den <= y.num * x.den

\* x < y on floats: false when either side is not a number
lt(x, y) == ~isnan(x) /\ ~isnan(y) /\ x.num * y.den < y.num * x.den

\* apply_fdr_correction (statsmodels multipletests)
FracLeq(f, g) == f.num * g.den <= g.num * f.den
FracMin(f, g) == IF FracLeq(f, g) THEN f ELSE g

\* np.argsort: the positions of the values in ascending order (equal values
\* in the order of their positions)
RECURSIVE argsort(_, _)
argsort(pvals, left) ==
    IF left = {} THEN <<>>
    ELSE LET i == CHOOSE k \in left :
                    \A o \in left :
                        \/ ~FracLeq(pvals[o], pvals[k])
                        \/ (FracLeq(pvals[k], pvals[o]) /\ k <= o)
         IN  <<i>> \o argsort(pvals, left \ {i})

\* np.minimum.accumulate(raw[::-1])[::-1]: the minimum of the values from
\* position i on
RECURSIVE MinFrom(_, _)
MinFrom(raw, i) ==
    IF i = Len(raw) THEN raw[i] ELSE FracMin(raw[i], MinFrom(raw, i + 1))

\* pvals_corrected[pvals_corrected > 1] = 1
Capped(f) == IF FracLeq(f, Frac(1, 1)) THEN f ELSE Frac(1, 1)

\* fdrcorrection(method='indep') on sorted p-values
fdrcorrection(sorted, alpha) ==
    LET m == Len(sorted)
        below == {i \in 1..m :
                    FracLeq(sorted[i], Frac(i * alpha.num, m * alpha.den))}
        rejectmax == IF below = {} THEN 0
                     ELSE CHOOSE i \in below : \A o \in below : o <= i
        raw == [i \in 1..m |-> Frac(sorted[i].num * m, sorted[i].den * i)]
    IN  [reject |-> [i \in 1..m |-> i <= rejectmax],
         pvals_corrected |-> [i \in 1..m |-> Reduced(Capped(MinFrom(raw, i)))]]

\* the bonferroni branch of multipletests on sorted p-values
bonferroni(sorted, alpha) ==
    LET m == Len(sorted)
    IN  [reject |-> [i \in 1..m |->
                        FracLeq(sorted[i], Frac(alpha.num, alpha.den * m))],
         pvals_corrected |-> [i \in 1..m |->
                        Reduced(Capped(Frac(sorted[i].num * m, sorted[i].den)))]]

\* reject_[sortind] = reject; pvals_corrected_[sortind] = pvals_corrected
unsort(values, sortind) ==
    [i \in 1..Len(values) |->
        values[CHOOSE k \in 1..Len(sortind) : sortind[k] = i]]

\* multipletests(p_values, alpha=alpha, method=method): sorts, corrects,
\* and puts the results back in the order of the input.  With no p-value
\* the thresholds alpha / ntests divide by zero.  The Sidak threshold is
\* not computed.
apply_fdr_correction(p_values, method, alpha) ==
    LET ntests == Len(p_values)
        sortind == argsort(p_values, 1..ntests)
        pvals == [k \in 1..ntests |-> p_values[sortind[k]]]
    IN  IF ntests = 0
        THEN Raised("ZeroDivisionError", "DivisionByZero", "ntests")
        ELSE LET r == IF method = "fdr_bh" THEN fdrcorrection(pvals, alpha)
                      ELSE bonferroni(pvals, alpha)
             IN  [status |-> "ok",
                  reject |-> unsort(r.reject, sortind),
                  pvals_corrected |-> unsort(r.pvals_corrected, sortind),
                  alphacBonf |-> Frac(alpha.num, alpha.den * ntests)]

\* the for loop of run_all_chi_square_tests: no handler around the call, an
\* exception of chi_square_test leaves the function
RECURSIVE RunLoop(_, _, _, _)
RECURSIVE RunStep(_, _, _, _, _)
RunStep(result, d, pairs, config, results) ==
    IF result.status = "raised" THEN result
    ELSE RunLoop(d, Tail(pairs), config, Append(results, result))

RunLoop(d, pairs, config, results) ==
    IF pairs = <<>> THEN [status |-> "ok", results |-> results]
    ELSE RunStep(chi_square_test(d, Head(pairs)[1], Head(pairs)[2], config),
                 d, pairs, config, results)

\* df_results.loc[valid_mask, 'p_value'].values
RECURSIVE ValidPositions(_, _)
ValidPositions(results, i) ==
    IF i > Len(results) THEN <<>>
    ELSE (IF ~isnan(results[i].p_value) THEN <<i>> ELSE <<>>)
         \o ValidPositions(results, i + 1)

\* df_results.loc[valid_mask, column] = values: row i takes the value of
\* its rank among the valid rows, a row outside the mask holds NaN
AssignByMask(valid, corrected, i) ==
    IF \E k \in 1..Len(valid) : valid[k] = i
    THEN corrected[CHOOSE k \in 1..Len(valid) : valid[k] = i]
    ELSE NaN

\* the two columns the correction adds to df_results, given the positions
\* of the valid rows and their corrected p-values
WithCorrection(results, valid, corrected_p, alpha) ==
    [status |-> "ok", results |-> results,
     columns |-> {"p_value_corrected", "significant"},
     p_value_corrected |->
        [i \in 1..Len(results) |-> AssignByMask(valid, corrected_p, i)],
     significant |->
        [i \in 1..Len(results) |->
            AssignByMask(valid,
                         [k \in 1..Len(valid) |-> lt(corrected_p[k], alpha)],
                         i)]]

\* apply_fdr_correction(valid_p_values, alpha=config.alpha)
CorrectValid(results, valid, alpha) ==
    WithCorrection(results, valid,
        apply_fdr_correction([k \in 1..Len(valid) |-> results[valid[k]].p_value],
                             "fdr_bh", alpha).pvals_corrected, alpha)

\* the block after the loop: df_results has a 'p_value' column when it has
\* a row, and the correction runs when a valid p-value exists
CorrectionBlock(results, valid, apply_correction, alpha) ==
    IF apply_correction /\ Len(results) > 0 /\ Len(valid) > 0
    THEN CorrectValid(results, valid, alpha)
    ELSE [status |-> "ok", results |-> results, columns |-> {},
          p_value_corrected |-> <<>>, significant |-> <<>>]

AfterLoop(looped, apply_correction, alpha) ==
    IF looped.status = "raised" THEN looped
    ELSE CorrectionBlock(looped.results, ValidPositions(looped.results, 1),
                         apply_correction, alpha)

\* run_all_chi_square_tests.  df_results is held as the sequence of the
\* results, one row each, and the two columns the correction adds.
run_all_chi_square_tests(d, pairs, config, apply_correction) ==
    AfterLoop(RunLoop(d, pairs, config, <<>>), apply_correction, config.alpha)

----------------------------------------------------------------------------
(* State machine: the caller's calls on one dataset *)

\* warnings.filters of a fresh interpreter, then the module-level
\* warnings.filterwarnings('ignore') of crosstab.py and stats.py at import
DefaultFilters ==
    << [action |-> "default", category |-> "DeprecationWarning"],
       [action |-> "ignore", category |-> "DeprecationWarning"],
       [action |-> "ignore", category |-> "PendingDeprecationWarning"],
       [action |-> "ignore", category |-> "ImportWarning"],
       [action |-> "ignore", category |-> "ResourceWarning"] >>

ImportFilters == <<[action |-> "ignore", category |-> "Warning"]>> \o DefaultFilters

Categories == {<<"x">>, <<"y">>}
CategoricalCells == {NA} \cup {Str(c) : c \in Categories}

\* the question mapping of the configuration in use; q3 maps to a column
\* the dataset does not have
QuestionMap == [q1 |-> "a", q2 |-> "b", q3 |-> "nope"]

\* (row_var, col_var) arguments the caller passes
CallPairs ==
    { <<"a", "b">>, <<"b", "a">>, <<"q1", "q2">>, <<"q3", "b">>,
      <<"a", "zz">>, <<"zz", "q3">> }

NormalizeOptions == {"None", "index", "columns", "all"}

NoCall == [op |-> "none"]
NoReturn == [status |-> "none"]

TheConfig(use) == IF use THEN Config(questions, crosstab_tiers) ELSE NoConfig

InitCrosstab ==
    /\ \E n \in 0..MaxRows : df \in [{"a", "b"} -> [1..n -> CategoricalCells]]
    /\ questions = QuestionMap
    /\ crosstab_tiers = <<>>
    /\ pandas2 \in BOOLEAN
    /\ filters = ImportFilters
    /\ shown = <<>>
    /\ ct = EmptyDataFrame
    /\ call = NoCall
    /\ ret = NoReturn

\* the caller keeps the table of a build that returned
Held(r) == IF r.status = "ok" THEN r.table ELSE ct

\* One analysis per behaviour: the caller builds one table from the dataset
\* and then summarizes the table it holds.
CallCreateCrosstab ==
    /\ call = NoCall
    /\ \E p \in CallPairs, use \in BOOLEAN, normalize \in NormalizeOptions,
       margins \in BOOLEAN :
        LET r == create_crosstab(df, p[1], p[2], TheConfig(use), normalize, margins)
        IN  /\ call' = [op |-> "create_crosstab", row_var |-> p[1], col_var |-> p[2],
                        config |-> use, normalize |-> normalize, margins |-> margins]
            /\ ret' = r
            /\ ct' = Held(r)
            /\ UNCHANGED <<df, questions, crosstab_tiers, pandas2, filters, shown>>

CallCreateCrosstabWithTotals ==
    /\ call = NoCall
    /\ \E p \in CallPairs, use \in BOOLEAN :
        LET r == create_crosstab_with_totals(df, p[1], p[2], TheConfig(use))
        IN  /\ call' = [op |-> "create_crosstab_with_totals", row_var |-> p[1],
                        col_var |-> p[2], config |-> use, normalize |-> "None",
                        margins |-> TRUE]
            /\ ret' = r
            /\ ct' = Held(r)
            /\ UNCHANGED <<df, questions, crosstab_tiers, pandas2, filters, shown>>

CallCreateCrosstabPercentage ==
    /\ call = NoCall
    /\ \E p \in CallPairs, use \in BOOLEAN, by \in {"row", "column"} :
        LET r == create_crosstab_percentage(df, p[1], p[2], TheConfig(use), by)
        IN  /\ call' = [op |-> "create_crosstab_percentage", row_var |-> p[1],
                        col_var |-> p[2], config |-> use,
                        normalize |-> IF by = "row" THEN "index" ELSE "columns",
                        margins |-> FALSE]
            /\ ret' = r
            /\ ct' = Held(r)
            /\ UNCHANGED <<df, questions, crosstab_tiers, pandas2, filters, shown>>

\* get_crosstab_summary on the count table the caller holds
BuildOps ==
    {"create_crosstab", "create_crosstab_with_totals", "create_crosstab_percentage"}

TableOps == BuildOps \cup {"create_multiselect_crosstab"}

CallGetCrosstabSummary ==
    /\ call.op \in TableOps
    /\ ret.status = "ok"
    /\ ct.dtype # "float64"
    /\ \E p \in {<<"a", "b">>} :
        /\ call' = [op |-> "get_crosstab_summary", ct |-> ct,
                    row_var |-> p[1], col_var |-> p[2]]
        /\ ret' = get_crosstab_summary(ct, p[1], p[2])
    /\ UNCHANGED <<df, questions, crosstab_tiers, pandas2, filters, shown, ct>>

NextCrosstab ==
    \/ CallCreateCrosstab
    \/ CallCreateCrosstabWithTotals
    \/ CallCreateCrosstabPercentage
    \/ CallGetCrosstabSummary

SpecCrosstab == InitCrosstab /\ [][NextCrosstab]_vars

----------------------------------------------------------------------------
(* Properties of the table builders *)

\* the resolved columns of the last call
RowCol == ResolveColumn(TheConfig(call.config), call.row_var)
ColCol == ResolveColumn(TheConfig(call.config), call.col_var)

BuildCall == call.op \in BuildOps
BothColumnsExist == RowCol \in DOMAIN df /\ ColCol \in DOMAIN df

\* the rows of the dataset in which both variables are present
JointRows == {k \in 1..Len(df[RowCol]) : ~isna(df[RowCol][k]) /\ ~isna(df[ColCol][k])}

RECURSIVE SumPairs(_, _)
SumPairs(t, P) ==
    IF P = {} THEN 0
    ELSE LET p == CHOOSE q \in P : TRUE
         IN  t.values[p[1]][p[2]] + SumPairs(t, P \ {p})

\* the positions of a table outside the reserved row and column
InteriorRows(t) == {i \in 1..Len(t.index) : t.index[i] # MarginsName}
InteriorCols(t) == {j \in 1..Len(t.columns) : t.columns[j] # MarginsName}
Interior(t) == InteriorRows(t) \X InteriorCols(t)

PlainCountCall == BuildCall /\ call.normalize = "None" /\ ~call.margins

\* C4: on two existing columns, create_crosstab without margins and without
\* normalization returns a table whose cells sum to the number of dataset rows
\* in which both variables are present, and whose cell (r, c) is the number
\* of dataset rows with row value r and column value c; every value pair
\* that occurs has its cell.
C4_InteriorCountsRows ==
    (PlainCountCall /\ BothColumnsExist) =>
        /\ ret.status = "ok"
        /\ SumPairs(ret.table, Interior(ret.table)) = Cardinality(JointRows)
        /\ \A k \in JointRows :
            /\ df[RowCol][k].val \in Range(ret.table.index)
            /\ df[ColCol][k].val \in Range(ret.table.columns)
        /\ \A i \in 1..Len(ret.table.index), j \in 1..Len(ret.table.columns) :
            ret.table.values[i][j] =
                Cardinality({k \in 1..Len(df[RowCol]) :
                                /\ df[RowCol][k] = Str(ret.table.index[i])
                                /\ df[ColCol][k] = Str(ret.table.columns[j])})

\* a plain count table of three rows, one of which misses a variable
C4_Witness ==
    /\ PlainCountCall /\ BothColumnsExist
    /\ ret.status = "ok"
    /\ Len(df[RowCol]) = 3
    /\ Cardinality(JointRows) = 2
    /\ Len(ret.table.index) = 2

MarginsCountCall == BuildCall /\ call.normalize = "None" /\ call.margins

Last(s) == s[Len(s)]

\* On count tables (normalize=None) built with margins the reserved row and
\* column come last and equal the interior sums; a returned table carries no
\* margins only when the two variables share no row (the empty table).
CountMarginsEqualInteriorSums ==
    (MarginsCountCall /\ ret.status = "ok") =>
        LET t == ret.table
            m == Len(t.index)
            n == Len(t.columns)
        IN  IF JointRows = {} THEN m = 0 /\ n = 0
            ELSE /\ Last(t.index) = MarginsName /\ Last(t.columns) = MarginsName
                 /\ InteriorRows(t) = 1..(m - 1) /\ InteriorCols(t) = 1..(n - 1)
                 /\ \A i \in InteriorRows(t) :
                        t.values[i][n] = SumPairs(t, {i} \X InteriorCols(t))
                 /\ \A j \in InteriorCols(t) :
                        t.values[m][j] = SumPairs(t, InteriorRows(t) \X {j})
                 /\ t.values[m][n] = SumPairs(t, Interior(t))

\* a value of a table as an exact fraction
AsFrac(t, v) == IF t.dtype = "float64" THEN v ELSE Frac(v, 1)

FracEq(f, g) == f.num * g.den = g.num * f.den

\* exact sum of a sequence of fractions
RECURSIVE FracSum(_)
FracSum(fs) ==
    IF fs = <<>> THEN Frac(0, 1)
    ELSE LET r == FracSum(Tail(fs))
         IN  Frac(Head(fs).num * r.den + r.num * Head(fs).den, Head(fs).den * r.den)

\* the interior cells of row i, of column j, and all of them, as fractions
InteriorOfRow(t, i) == [j \in 1..(Len(t.columns) - 1) |-> AsFrac(t, t.values[i][j])]
InteriorOfColumn(t, j) == [i \in 1..(Len(t.index) - 1) |-> AsFrac(t, t.values[i][j])]
InteriorRowSums(t) == [i \in 1..(Len(t.index) - 1) |-> FracSum(InteriorOfRow(t, i))]

\* C5: in every table built with margins (create_crosstab with margins=True
\* under any normalize option, create_crosstab_with_totals) the reserved
\* column entry of each interior row equals the sum of that row's interior
\* cells, the reserved row entry of each interior column the sum of that
\* column's interior cells, and the corner the sum of all interior cells.
C5_MarginsEqualInteriorSums ==
    (BuildCall /\ call.margins /\ ret.status = "ok" /\ Len(ret.table.index) > 0) =>
        LET t == ret.table
            m == Len(t.index)
            n == Len(t.columns)
        IN  /\ Last(t.index) = MarginsName /\ Last(t.columns) = MarginsName
            /\ \A i \in 1..(m - 1) :
                FracEq(AsFrac(t, t.values[i][n]), FracSum(InteriorOfRow(t, i)))
            /\ \A j \in 1..(n - 1) :
                FracEq(AsFrac(t, t.values[m][j]), FracSum(InteriorOfColumn(t, j)))
            /\ FracEq(AsFrac(t, t.values[m][n]), FracSum(InteriorRowSums(t)))

\* C6: whenever the resolved row column or the resolved column column is
\* absent from the dataset, create_crosstab raises the column-not-found
\* error before pd.crosstab is reached, returns no table, and the error
\* names a resolved column that is absent.
C6_MissingColumnFailsFast ==
    (BuildCall /\ ~BothColumnsExist) =>
        /\ ret.status = "raised"
        /\ ret.msg = "ColumnNotFound"
        /\ ~ret.counted
        /\ ret.name \in {RowCol, ColCol} \ DOMAIN df
        /\ "table" \notin DOMAIN ret
        /\ ct = EmptyDataFrame

\* the identifier q3 resolves to the absent column "nope"
C6_Witness ==
    /\ BuildCall /\ call.config /\ call.row_var = "q3"
    /\ ret.status = "raised" /\ ret.name = "nope"
    /\ Len(df["a"]) > 0

Abs(x) == IF x < 0 THEN -x ELSE x

\* |f - 100| < 0.1, false for a zero denominator (NaN)
Near100(f) == f.den > 0 /\ 10 * Abs(f.num - 100 * f.den) < f.den

TableRow(t, i) == t.values[i]
TableColumn(t, j) == [i \in 1..Len(t.index) |-> t.values[i][j]]

\* C7: create_crosstab with normalize='index' (create_crosstab_percentage
\* by='row') returns a table in which every row sums to 100 within 0.1, and
\* with normalize='columns' (by='column') a table in which every column sums
\* to 100 within 0.1.
C7_NormalizedAxisSumsTo100 ==
    (BuildCall /\ ret.status = "ok") =>
        /\ call.normalize = "index" =>
            \A i \in 1..Len(ret.table.index) : Near100(FracSum(TableRow(ret.table, i)))
        /\ call.normalize = "columns" =>
            \A j \in 1..Len(ret.table.columns) :
                Near100(FracSum(TableColumn(ret.table, j)))

\* a row-normalized 2x2 table whose rows had different sums
C7_Witness ==
    /\ BuildCall /\ ret.status = "ok" /\ call.normalize = "index" /\ ~call.margins
    /\ Len(ret.table.index) = 2 /\ Len(ret.table.columns) = 2
    /\ ret.table.values[1][1].den # ret.table.values[2][1].den
    /\ ret.table.values[1][1].num > 0 /\ ret.table.values[1][2].num > 0

SummaryCall == call.op = "get_crosstab_summary"

Maximal(t, p) == \A q \in Interior(t) : t.values[q[1]][q[2]] <= t.values[p[1]][p[2]]

\* C10: get_crosstab_summary leaves the reserved row and column out; on a
\* table with interior cells it returns total_n, the sum of the interior
\* cells, and as max_cell the interior cell with the highest count, the first
\* one in row-major order (lowest row index, then lowest column index) when
\* several share the maximum.
C10_SummaryMaxCellFirstRowMajor ==
    (SummaryCall /\ Interior(call.ct) # {}) =>
        /\ ret.status = "ok"
        /\ ret.summary.total_n = SumPairs(call.ct, Interior(call.ct))
        /\ \E p \in Interior(call.ct) :
            /\ ret.summary.max_cell.row = call.ct.index[p[1]]
            /\ ret.summary.max_cell.col = call.ct.columns[p[2]]
            /\ ret.summary.max_cell.count = call.ct.values[p[1]][p[2]]
            /\ Maximal(call.ct, p)
            /\ \A q \in Interior(call.ct) :
                Maximal(call.ct, q) =>
                    \/ p[1] < q[1]
                    \/ (p[1] = q[1] /\ p[2] <= q[2])

\* a table with margins in which two interior cells share the maximum and
\* the first of them is not the first cell
C10_Witness ==
    /\ SummaryCall /\ ret.status = "ok"
    /\ MarginsName \in Range(call.ct.index)
    /\ Cardinality({p \in Interior(call.ct) : Maximal(call.ct, p)}) = 2
    /\ call.ct.values[1][1] # ret.summary.max_cell.count

----------------------------------------------------------------------------
(* Multi-select tables *)

\* cells of a multi-select column: missing, a number, and texts
MultiCells ==
    { NA, Num(<<"7">>), Str(<<>>), Str(<<" ">>), Str(<<",", " ">>), Str(<<"A">>),
      Str(<<"A", ",", "B">>), Str(<<"B", ",", "C">>), Str(<<"A", ",", "A">>),
      Str(<<"A", ",", " ", "A">>), Str(<<" ", "B", " ", ",">>) }

Delimiters == {Delimiter, ";"}

MultiselectPairs == { <<"a", "m">>, <<"q1", "m">>, <<"q3", "m">>, <<"a", "zz">> }

InitMultiselect ==
    /\ \E n \in 0..MaxRespondents :
        \E a \in [1..n -> CategoricalCells], m \in [1..n -> MultiCells] :
            df = [a |-> a, m |-> m]
    /\ questions = QuestionMap
    /\ crosstab_tiers = <<>>
    /\ pandas2 \in BOOLEAN
    /\ filters = ImportFilters
    /\ shown = <<>>
    /\ ct = EmptyDataFrame
    /\ call = NoCall
    /\ ret = NoReturn

CallCreateMultiselectCrosstab ==
    /\ call = NoCall
    /\ \E p \in MultiselectPairs, use \in BOOLEAN, delimiter \in Delimiters :
        LET r == create_multiselect_crosstab(df, p[1], p[2], TheConfig(use), delimiter)
        IN  /\ call' = [op |-> "create_multiselect_crosstab", row_var |-> p[1],
                        col_var |-> p[2], config |-> use, delimiter |-> delimiter]
            /\ ret' = r
            /\ ct' = Held(r)
            /\ UNCHANGED <<df, questions, crosstab_tiers, pandas2, filters, shown>>

NextMultiselect ==
    \/ CallCreateMultiselectCrosstab
    \/ CallGetCrosstabSummary

SpecMultiselect == InitMultiselect /\ [][NextMultiselect]_vars

MultiselectCall == call.op = "create_multiselect_crosstab"

\* the distinct non-empty trimmed tags of one text cell
TagsOf(c, delimiter) ==
    {str_strip(part) : part \in Range(str_split(c.val, delimiter))} \ {<<>>}

TextRespondents == {k \in 1..Len(df[ColCol]) : isinstance_str(df[ColCol][k])}

\* respondents that can be counted at all: a text cell and a row value
CountedRespondents == {k \in TextRespondents : ~isna(df[RowCol][k])}

CountedTags == UNION {TagsOf(df[ColCol][k], call.delimiter) : k \in CountedRespondents}

\* C8: the columns of the result of create_multiselect_crosstab are exactly
\* the distinct non-empty trimmed tags obtained by splitting, on the
\* delimiter, the text cells of the respondents that have a row value, and
\* cell (r, t) is the number of respondents with row value r whose cell
\* contains tag t.
C8_CellsCountRespondents ==
    (MultiselectCall /\ BothColumnsExist /\ ret.status = "ok") =>
        /\ Range(ret.table.columns) = CountedTags
        /\ \A i \in 1..Len(ret.table.index), j \in 1..Len(ret.table.columns) :
            ret.table.values[i][j] =
                Cardinality({k \in CountedRespondents :
                    /\ df[RowCol][k] = Str(ret.table.index[i])
                    /\ ret.table.columns[j] \in TagsOf(df[ColCol][k], call.delimiter)})

\* every character of every text cell is the delimiter or whitespace
AllTagsEmpty ==
    \A k \in TextRespondents :
        Range(df[ColCol][k].val) \subseteq Whitespace \cup {call.delimiter}

\* C9: on two existing columns, create_multiselect_crosstab returns the
\* explicitly empty table and raises nothing whenever no observation is left
\* after filtering: every cell of the column variable is missing or not
\* text, or every tag is empty after trimming.
C9_NoObservationGivesEmptyTable ==
    (MultiselectCall /\ BothColumnsExist /\ (TextRespondents = {} \/ AllTagsEmpty)) =>
        /\ ret.status = "ok"
        /\ ret.table = EmptyDataFrame

\* two respondents, one without text and one whose tags are all blank
C9_Witness ==
    /\ MultiselectCall /\ BothColumnsExist
    /\ Len(df[ColCol]) = 2
    /\ Cardinality(TextRespondents) = 1
    /\ \E k \in TextRespondents : Len(df[ColCol][k].val) >= 2
    /\ AllTagsEmpty
    /\ ret.status = "ok" /\ ret.table = EmptyDataFrame

----------------------------------------------------------------------------
(* Batches over the pairs of a tier *)

X == Str(<<"x">>)
Y == Str(<<"y">>)

\* the cells of one column of a two-respondent dataset
BatchColumnData == { <<X, Y>>, <<X, X>>, <<X, NA>>, <<NA, X>> }

\* the column names a dataset may hold
BatchColumnSets == { {"a", "b"}, {"a", "b_x_c"}, {"a"} }

\* the pairs a tier may declare: literal column names, an identifier the
\* configuration maps (q1), and names the dataset lacks
DeclaredPairs ==
    { <<"a", "b">>, <<"q1", "b">>, <<"a", "b_x_c">>, <<"a_x_b", "c">>, <<"zz", "b">> }

PairLists == UNION { [1..n -> DeclaredPairs] : n \in 0..MaxPairs }

\* datasets with the four columns a, b_x_c, a_x_b and c
FourColumnData ==
    { [a |-> <<X, Y>>, b_x_c |-> data, a_x_b |-> <<X, X>>, c |-> <<X, Y>>] :
        data \in BatchColumnData }

InitBatch ==
    /\ \/ \E names \in BatchColumnSets : df \in [names -> BatchColumnData]
       \/ df \in FourColumnData
    /\ questions = QuestionMap
    /\ \E pairs \in PairLists : crosstab_tiers = [tier1 |-> pairs]
    /\ pandas2 \in BOOLEAN
    /\ filters = ImportFilters
    /\ shown = <<>>
    /\ ct = EmptyDataFrame
    /\ call = NoCall
    /\ ret = NoReturn

\* the caller asks for every warning, as warnings.simplefilter("always") does
CallerSimplefilterAlways ==
    /\ call = NoCall
    /\ Head(filters).action # "always"
    /\ filters' = <<[action |-> "always", category |-> "Warning"]>> \o filters
    /\ UNCHANGED <<df, questions, crosstab_tiers, pandas2, shown, ct, call, ret>>

CallAnalyzeCrosstabsByTier ==
    /\ call = NoCall
    /\ \E tier \in {"tier1", "tier2"} :
        LET r == analyze_crosstabs_by_tier(df, TheConfig(TRUE), tier)
        IN  /\ call' = [op |-> "analyze_crosstabs_by_tier", tier |-> tier]
            /\ ret' = [status |-> r.status, results |-> r.results]
            /\ shown' = WarnAll(filters, shown, r.warned)
    /\ UNCHANGED <<df, questions, crosstab_tiers, pandas2, filters, ct>>

\* the values of config.alpha: the 0.05 of the base class, and 1 of a
\* configuration that overrides the property
Alphas == {DefaultAlpha, Frac(1, 1)}

\* run_all_chi_square_tests over the pairs of tier1
CallRunAllChiSquareTests ==
    /\ call = NoCall
    /\ \E apply_correction \in BOOLEAN, alpha \in Alphas :
        /\ call' = [op |-> "run_all_chi_square_tests",
                    pairs |-> crosstab_tiers["tier1"],
                    apply_correction |-> apply_correction, alpha |-> alpha]
        /\ ret' = run_all_chi_square_tests(df, crosstab_tiers["tier1"],
                        [TheConfig(TRUE) EXCEPT !.alpha = alpha], apply_correction)
    /\ UNCHANGED <<df, questions, crosstab_tiers, pandas2, filters, shown, ct>>

NextBatch ==
    \/ CallerSimplefilterAlways
    \/ CallAnalyzeCrosstabsByTier
    \/ CallRunAllChiSquareTests

SpecBatch == InitBatch /\ [][NextBatch]_vars

----------------------------------------------------------------------------
(* Properties of the batches *)

RunAllCall == call.op = "run_all_chi_square_tests"

TestOf(pair) == chi_square_test(df, pair[1], pair[2], TheConfig(TRUE))

\* C1: run_all_chi_square_tests never aborts on a bad pair: the batch
\* returns a result set with one item per pair, in which the item of every
\* pair whose chi_square_test succeeds is that result and the item of a
\* failing pair is marked with its error.
C1_BatchSurvivesBadPair ==
    RunAllCall =>
        /\ ret.status = "ok"
        /\ Len(ret.results) = Len(call.pairs)
        /\ \A i \in 1..Len(call.pairs) :
            IF TestOf(call.pairs[i]).status = "ok"
            THEN ret.results[i] = TestOf(call.pairs[i])
            ELSE ret.results[i].status = "raised"

AnalyzeCall == call.op = "analyze_crosstabs_by_tier"

DeclaredFor(tier) == TierPairs(crosstab_tiers, tier)

BuildOf(pair) == create_crosstab_with_totals(df, pair[1], pair[2], TheConfig(TRUE))

ColumnsExist(pair) ==
    /\ get_column_name(questions, pair[1]) \in DOMAIN df
    /\ get_column_name(questions, pair[2]) \in DOMAIN df

HasMargins(t) == MarginsName \in Range(t.index) /\ MarginsName \in Range(t.columns)

Built(pairs) == {i \in 1..Len(pairs) : BuildOf(pairs[i]).status = "ok"}

SharedRows(pair) ==
    {k \in 1..Len(df[get_column_name(questions, pair[1])]) :
        /\ ~isna(df[get_column_name(questions, pair[1])][k])
        /\ ~isna(df[get_column_name(questions, pair[2])][k])}

C3_OneWarningPerSkippedPair ==
    (AnalyzeCall /\ filters = ImportFilters) =>
        Len(shown) = Len(DeclaredFor(call.tier))
                     - Cardinality(Built(DeclaredFor(call.tier)))

----------------------------------------------------------------------------
(* core/crosstab.py: filter_crosstab_by_category *)

\* an optional list argument: None, or a list of labels
None == [given |-> FALSE, list |-> <<>>]
List(labels) == [given |-> TRUE, list |-> labels]

\* Python truth value of an optional list: None and [] are both false
Truthy(arg) == arg.given /\ Len(arg.list) > 0

\* [r for r in categories if r in labels]
RECURSIVE Valid(_, _)
Valid(categories, labels) ==
    IF categories = <<>> THEN <<>>
    ELSE (IF Head(categories) \in Range(labels) THEN <<Head(categories)>> ELSE <<>>)
         \o Valid(Tail(categories), labels)

\* position of a label of a unique index
Loc(labels, label) == CHOOSE k \in 1..Len(labels) : labels[k] = label

\* result.loc[valid_rows]
SelectRows(t, valid_rows) ==
    [t EXCEPT !.index = valid_rows,
              !.values = [k \in 1..Len(valid_rows) |->
                            t.values[Loc(t.index, valid_rows[k])]]]

\* result[valid_cols]
SelectColumns(t, valid_cols) ==
    [t EXCEPT !.columns = valid_cols,
              !.values = [i \in 1..Len(t.index) |->
                            [k \in 1..Len(valid_cols) |->
                                t.values[i][Loc(t.columns, valid_cols[k])]]]]

\* if row_categories: result = result.loc[valid_rows]
FilterRows(t, row_categories) ==
    IF Truthy(row_categories)
    THEN SelectRows(t, Valid(row_categories.list, t.index))
    ELSE t

\* if col_categories: result = result[valid_cols]
FilterColumns(t, col_categories) ==
    IF Truthy(col_categories)
    THEN SelectColumns(t, Valid(col_categories.list, t.columns))
    ELSE t

filter_crosstab_by_category(t, row_categories, col_categories) ==
    [status |-> "ok",
     table |-> FilterColumns(FilterRows(t, row_categories), col_categories)]

----------------------------------------------------------------------------
(* State machine: operations on a count table the caller holds *)

\* the caller builds the count table of the two columns
CallCreateCountTable ==
    /\ call = NoCall
    /\ \E margins \in BOOLEAN :
        LET r == create_crosstab(df, "a", "b", NoConfig, "None", margins)
        IN  /\ call' = [op |-> "create_crosstab", row_var |-> "a", col_var |-> "b",
                        config |-> FALSE, normalize |-> "None", margins |-> margins]
            /\ ret' = r
            /\ ct' = Held(r)
            /\ UNCHANGED <<df, questions, crosstab_tiers, pandas2, filters, shown>>

\* category lists a caller asks for
RowCategoryArgs ==
    { None, List(<<>>), List(<< <<"y">>, <<"x">> >>), List(<< <<"x">>, <<"zz">> >>),
      List(<< <<"zz">> >>) }

ColCategoryArgs ==
    { None, List(<<>>), List(<< <<"x">> >>), List(<< MarginsName, <<"zz">>, <<"y">> >>) }

CallFilterCrosstabByCategory ==
    /\ call.op = "create_crosstab"
    /\ ret.status = "ok"
    /\ \E rows \in RowCategoryArgs, cols \in ColCategoryArgs :
        /\ call' = [op |-> "filter_crosstab_by_category", ct |-> ct,
                    row_categories |-> rows, col_categories |-> cols]
        /\ ret' = filter_crosstab_by_category(ct, rows, cols)
    /\ UNCHANGED <<df, questions, crosstab_tiers, pandas2, filters, shown, ct>>

NextTable ==
    \/ CallCreateCountTable
    \/ CallFilterCrosstabByCategory

SpecTable == InitCrosstab /\ [][NextTable]_vars

FilterCall == call.op = "filter_crosstab_by_category"

\* the cell of a table at two labels
At(t, r, c) == t.values[Loc(t.index, r)][Loc(t.columns, c)]

\* the labels of a table that the filter must keep along one axis
Kept(arg, labels) == IF arg.given THEN Valid(arg.list, labels) ELSE labels

\* C11: filter_crosstab_by_category raises nothing; the row labels of its
\* result are exactly the requested row labels that the table has (all row
\* labels when no list is given), for an empty list and for a list of absent
\* labels too; the same holds for the columns, and every retained cell keeps
\* its value.
C11_FilterKeepsRequestedExisting ==
    FilterCall =>
        /\ ret.status = "ok"
        /\ ret.table.index = Kept(call.row_categories, call.ct.index)
        /\ ret.table.columns = Kept(call.col_categories, call.ct.columns)
        /\ \A i \in 1..Len(ret.table.index), j \in 1..Len(ret.table.columns) :
            ret.table.values[i][j]
                = At(call.ct, ret.table.index[i], ret.table.columns[j])

\* The same with a list that is given and not empty, or not given: holds.
FilterKeepsRequestedWhenNotEmpty ==
    (/\ FilterCall
     /\ call.row_categories # List(<<>>)
     /\ call.col_categories # List(<<>>)) =>
        /\ ret.status = "ok"
        /\ ret.table.index = Kept(call.row_categories, call.ct.index)
        /\ ret.table.columns = Kept(call.col_categories, call.ct.columns)
        /\ \A i \in 1..Len(ret.table.index), j \in 1..Len(ret.table.columns) :
            ret.table.values[i][j]
                = At(call.ct, ret.table.index[i], ret.table.columns[j])

----------------------------------------------------------------------------
(* State machine: chi_square_test on a dataset of two categorical columns *)

\* cells of the two columns: a has up to two categories, b up to three
TwoCategoryCells == {NA, Str(<<"x">>), Str(<<"y">>)}
ThreeCategoryCells == TwoCategoryCells \cup {Str(<<"z">>)}

InitChiSquare ==
    /\ \E n \in 0..MaxRows :
        \E a \in [1..n -> TwoCategoryCells], b \in [1..n -> ThreeCategoryCells] :
            df = [a |-> a, b |-> b]
    /\ questions = QuestionMap
    /\ crosstab_tiers = <<>>
    /\ pandas2 \in BOOLEAN
    /\ filters = ImportFilters
    /\ shown = <<>>
    /\ ct = EmptyDataFrame
    /\ call = NoCall
    /\ ret = NoReturn

CallChiSquareTest ==
    /\ call = NoCall
    /\ \E p \in CallPairs, use \in BOOLEAN :
        /\ call' = [op |-> "chi_square_test", var1 |-> p[1], var2 |-> p[2],
                    config |-> use]
        /\ ret' = chi_square_test(df, p[1], p[2], TheConfig(use))
    /\ UNCHANGED <<df, questions, crosstab_tiers, pandas2, filters, shown, ct>>

NextChiSquare == CallChiSquareTest

SpecChiSquare == InitChiSquare /\ [][NextChiSquare]_vars

ChiSquareCall == call.op = "chi_square_test"

Var1Col == ResolveColumn(TheConfig(call.config), call.var1)
Var2Col == ResolveColumn(TheConfig(call.config), call.var2)

TestColumnsExist == Var1Col \in DOMAIN df /\ Var2Col \in DOMAIN df

\* rows of the dataset in which both test variables are present
TestRows == {k \in 1..Len(df[Var1Col]) : ~isna(df[Var1Col][k]) /\ ~isna(df[Var2Col][k])}

\* distinct categories of each variable over those rows
Categories1 == {df[Var1Col][k].val : k \in TestRows}
Categories2 == {df[Var2Col][k].val : k \in TestRows}

\* C12: chi_square_test raises the table-too-small error and returns no
\* result exactly when both columns exist and the margin-free contingency
\* table has fewer than 2 categories in a dimension; with at least 2
\* categories in both it returns a result, whose observed grid has one row
\* per category of the first variable and one column per category of the
\* second.
C12_TooSmallTableFails ==
    ChiSquareCall =>
        IF ~TestColumnsExist
        THEN ret.status = "raised" /\ ret.msg # "TableTooSmall"
        ELSE IF Cardinality(Categories1) < 2 \/ Cardinality(Categories2) < 2
        THEN /\ ret.status = "raised"
             /\ ret.msg = "TableTooSmall"
             /\ DOMAIN ret = {"status", "exc", "msg", "name"}
        ELSE /\ ret.status = "ok"
             /\ Len(ret.observed) = Cardinality(Categories1)
             /\ \A i \in 1..Len(ret.observed) :
                    Len(ret.observed[i]) = Cardinality(Categories2)

\* a single row fails, as does a constant column over three rows
C12_Witness ==
    /\ ChiSquareCall /\ TestColumnsExist
    /\ ret.status = "raised" /\ ret.msg = "TableTooSmall"
    /\ Len(df[Var1Col]) = 3
    /\ Cardinality(Categories1) = 1
    /\ Cardinality(Categories2) = 3

----------------------------------------------------------------------------
(* core/stats.py: t_test_independent *)

\* df[df[group_col] == group][value_col]: the value cells of the rows whose
\* group cell equals the group (a missing group cell equals nothing)
RECURSIVE GroupValues(_, _, _)
GroupValues(groupc, valuec, group) ==
    IF groupc = <<>> THEN <<>>
    ELSE (IF Head(groupc) = group THEN <<Head(valuec)>> ELSE <<>>)
         \o GroupValues(Tail(groupc), Tail(valuec), group)

\* Series.dropna()
RECURSIVE dropna(_)
dropna(cells) ==
    IF cells = <<>> THEN <<>>
    ELSE (IF isna(Head(cells)) THEN <<>> ELSE <<Head(cells)>>) \o dropna(Tail(cells))

\* Mutant: the missing values of the value variable are kept.
group_data_with_missing(d, group_col, value_col, group) ==
    GroupValues(d[group_col], d[value_col], group)

\* data1 / data2 of t_test_independent
group_data(d, group_col, value_col, group) ==
    dropna(GroupValues(d[group_col], d[value_col], group))

\* Series.mean() of numeric cells (missing values skipped), as an exact
\* fraction
mean(cells) ==
    LET present == dropna(cells)
    IN  Reduced(Frac(SumSeq([k \in 1..Len(present) |-> present[k].val]), Len(present)))

\* t_test_independent.  The t statistic, the p-value, the standard
\* deviations and Cohen's d are not computed.
t_test_independent(d, group_var, value_var, group1, group2, config) ==
    LET group_col == ResolveColumn(config, group_var)
        value_col == ResolveColumn(config, value_var)
    IN  IF group_col \notin DOMAIN d
        THEN Raised("ValueError", "ColumnNotFound", group_col)
        ELSE IF value_col \notin DOMAIN d
        THEN Raised("ValueError", "ColumnNotFound", value_col)
        ELSE LET data1 == group_data(d, group_col, value_col, group1)
                 data2 == group_data(d, group_col, value_col, group2)
             IN  IF Len(data1) < 2 \/ Len(data2) < 2
                 THEN Raised("ValueError", "SampleTooSmall",
                             <<Len(data1), Len(data2)>>)
                 ELSE [status |-> "ok", test |-> "t_test",
                       group_var |-> group_var, value_var |-> value_var,
                       group1 |-> group1.val, group2 |-> group2.val,
                       n1 |-> Len(data1), n2 |-> Len(data2),
                       mean1 |-> mean(data1), mean2 |-> mean(data2)]

----------------------------------------------------------------------------
(* State machine: t_test_independent on a group column and a value column *)

MaxCases == 4         \* respondents of a dataset with a numeric column

GroupCells == {NA, Str(<<"x">>), Str(<<"y">>)}
ValueCells == {NA, Num(1), Num(2)}

\* the two groups of the worked example: values 5, 5, 4, 5 and 1, 2, 2, 3
ExampleGroups ==
    [g |-> << Str(<<"x">>), Str(<<"x">>), Str(<<"x">>), Str(<<"x">>),
              Str(<<"y">>), Str(<<"y">>), Str(<<"y">>), Str(<<"y">>) >>,
     v |-> << Num(5), Num(5), Num(4), Num(5), Num(1), Num(2), Num(2), Num(3) >>]

InitTTest ==
    /\ \/ \E n \in 0..MaxCases :
            \E g \in [1..n -> GroupCells], v \in [1..n -> ValueCells] :
                df = [g |-> g, v |-> v]
       \/ df = ExampleGroups
    /\ questions = [q1 |-> "g", q2 |-> "v", q3 |-> "nope"]
    /\ crosstab_tiers = <<>>
    /\ pandas2 = TRUE
    /\ filters = ImportFilters
    /\ shown = <<>>
    /\ ct = EmptyDataFrame
    /\ call = NoCall
    /\ ret = NoReturn

\* (group_var, value_var, with config) and (group1, group2) of a call
TTestVariables ==
    { <<"g", "v", FALSE>>, <<"q1", "q2", TRUE>>, <<"q3", "v", TRUE>>,
      <<"g", "zz", FALSE>> }

TTestGroups ==
    { <<Str(<<"x">>), Str(<<"y">>)>>, <<Str(<<"y">>), Str(<<"y">>)>>,
      <<Str(<<"x">>), Str(<<"zz">>)>> }

CallTTestIndependent ==
    /\ call = NoCall
    /\ \E p \in TTestVariables, groups \in TTestGroups :
        /\ call' = [op |-> "t_test_independent", group_var |-> p[1],
                    value_var |-> p[2], config |-> p[3],
                    group1 |-> groups[1], group2 |-> groups[2]]
        /\ ret' = t_test_independent(df, p[1], p[2], groups[1], groups[2],
                                     TheConfig(p[3]))
    /\ UNCHANGED <<df, questions, crosstab_tiers, pandas2, filters, shown, ct>>

NextTTest == CallTTestIndependent

SpecTTest == InitTTest /\ [][NextTTest]_vars

TTestCall == call.op = "t_test_independent"

GroupCol == ResolveColumn(TheConfig(call.config), call.group_var)
ValueCol == ResolveColumn(TheConfig(call.config), call.value_var)

\* the respondents of a group with a value
Observed(group) ==
    {k \in 1..Len(df[GroupCol]) : df[GroupCol][k] = group /\ ~isna(df[ValueCol][k])}

\* C14: with both columns present, t_test_independent raises the
\* sample-too-small error exactly when group1 or group2 has fewer than 2
\* respondents with a value; otherwise it returns a result whose n1 and n2
\* are the numbers of respondents with a value of group1 and of group2
\* (4 and 4 for the values 5, 5, 4, 5 against 1, 2, 2, 3).
C14_GroupSizesAfterDropna ==
    (TTestCall /\ GroupCol \in DOMAIN df /\ ValueCol \in DOMAIN df) =>
        LET N1 == Cardinality(Observed(call.group1))
            N2 == Cardinality(Observed(call.group2))
        IN  /\ IF N1 < 2 \/ N2 < 2
               THEN ret.status = "raised" /\ ret.msg = "SampleTooSmall"
               ELSE ret.status = "ok" /\ ret.n1 = N1 /\ ret.n2 = N2
            /\ (df = ExampleGroups /\ call.group2 = Str(<<"y">>)
                    /\ call.group1 = Str(<<"x">>))
                    => (ret.status = "ok" /\ ret.n1 = 4 /\ ret.n2 = 4)

\* a group of two respondents of whom one has no value: too small
C14_Witness ==
    /\ TTestCall /\ GroupCol \in DOMAIN df /\ ValueCol \in DOMAIN df
    /\ call.group1 = Str(<<"x">>) /\ call.group2 = Str(<<"y">>)
    /\ Cardinality({k \in 1..Len(df[GroupCol]) : df[GroupCol][k] = call.group1}) = 2
    /\ Cardinality(Observed(call.group1)) = 1
    /\ Cardinality(Observed(call.group2)) = 2
    /\ ret.status = "raised" /\ ret.msg = "SampleTooSmall"

----------------------------------------------------------------------------
(* core/stats.py: correlation_test *)

SupportedMethods == {"spearman", "pearson", "kendall"}

\* df[[col1, col2]].dropna(): the rows in which both cells are present
RECURSIVE PairedRows(_, _)
PairedRows(c1, c2) ==
    IF c1 = <<>> THEN <<>>
    ELSE (IF isna(Head(c1)) \/ isna(Head(c2)) THEN <<>> ELSE << <<Head(c1), Head(c2)>> >>)
         \o PairedRows(Tail(c1), Tail(c2))

\* Mutant: the method is validated before the columns are looked up.
correlation_test_method_first(d, var1, var2, method, config) ==
    LET col1 == ResolveColumn(config, var1)
        col2 == ResolveColumn(config, var2)
    IN  IF method \notin SupportedMethods
        THEN Raised("ValueError", "UnsupportedMethod", method)
             @@ [allowed |-> SupportedMethods]
        ELSE IF col1 \notin DOMAIN d
        THEN Raised("ValueError", "ColumnNotFound", col1)
        ELSE IF col2 \notin DOMAIN d
        THEN Raised("ValueError", "ColumnNotFound", col2)
        ELSE LET valid_data == PairedRows(d[col1], d[col2])
             IN  IF Len(valid_data) < 3
                 THEN Raised("ValueError", "SampleTooSmall", <<Len(valid_data)>>)
                 ELSE [status |-> "ok", test |-> "correlation", method |-> method,
                       var1 |-> var1, var2 |-> var2, n |-> Len(valid_data)]

\* correlation_test: the columns are checked first, then the number of
\* paired observations, and the method last, in the if/elif chain that
\* computes the coefficient.  The coefficient and the p-value are not
\* computed.
correlation_test(d, var1, var2, method, config) ==
    LET col1 == ResolveColumn(config, var1)
        col2 == ResolveColumn(config, var2)
    IN  IF col1 \notin DOMAIN d
        THEN Raised("ValueError", "ColumnNotFound", col1)
        ELSE IF col2 \notin DOMAIN d
        THEN Raised("ValueError", "ColumnNotFound", col2)
        ELSE LET valid_data == PairedRows(d[col1], d[col2])
             IN  IF Len(valid_data) < 3
                 THEN Raised("ValueError", "SampleTooSmall", <<Len(valid_data)>>)
                 ELSE IF method \in SupportedMethods
                 THEN [status |-> "ok", test |-> "correlation", method |-> method,
                       var1 |-> var1, var2 |-> var2, n |-> Len(valid_data)]
                 ELSE Raised("ValueError", "UnsupportedMethod", method)
                      @@ [allowed |-> SupportedMethods]

----------------------------------------------------------------------------
(* State machine: correlation_test on two numeric columns *)

InitCorrelation ==
    /\ \E n \in 0..MaxCases :
        \E v \in [1..n -> ValueCells], w \in [1..n -> ValueCells] :
            df = [v |-> v, w |-> w]
    /\ questions = [q1 |-> "v", q2 |-> "w", q3 |-> "nope"]
    /\ crosstab_tiers = <<>>
    /\ pandas2 = TRUE
    /\ filters = ImportFilters
    /\ shown = <<>>
    /\ ct = EmptyDataFrame
    /\ call = NoCall
    /\ ret = NoReturn

\* (var1, var2, with config) of a call
CorrelationVariables ==
    { <<"v", "w", FALSE>>, <<"q1", "q2", TRUE>>, <<"v", "zz", FALSE>> }

Methods == SupportedMethods \cup {"cosine"}

CallCorrelationTest ==
    /\ call = NoCall
    /\ \E p \in CorrelationVariables, method \in Methods :
        /\ call' = [op |-> "correlation_test", var1 |-> p[1], var2 |-> p[2],
                    config |-> p[3], method |-> method]
        /\ ret' = correlation_test(df, p[1], p[2], method, TheConfig(p[3]))
    /\ UNCHANGED <<df, questions, crosstab_tiers, pandas2, filters, shown, ct>>

NextCorrelation == CallCorrelationTest

SpecCorrelation == InitCorrelation /\ [][NextCorrelation]_vars

CorrelationCall == call.op = "correlation_test"

CorrelationColumnsExist ==
    /\ ResolveColumn(TheConfig(call.config), call.var1) \in DOMAIN df
    /\ ResolveColumn(TheConfig(call.config), call.var2) \in DOMAIN df

\* C15: with both columns present and a method outside spearman, pearson,
\* kendall, correlation_test raises the unsupported-method error, which
\* names the allowed set, whatever the number of paired observations.
C15_UnknownMethodRejected ==
    (CorrelationCall /\ CorrelationColumnsExist /\ call.method \notin SupportedMethods) =>
        /\ ret.status = "raised"
        /\ ret.msg = "UnsupportedMethod"
        /\ ret.allowed = {"spearman", "pearson", "kendall"}

\* With at least 3 paired observations an unknown method is rejected by
\* name; with fewer the sample-size error is raised whatever the method.
UnknownMethodRejectedOnEnoughPairs ==
    (CorrelationCall /\ CorrelationColumnsExist) =>
        LET pairs == {k \in 1..Len(df["v"]) : ~isna(df["v"][k]) /\ ~isna(df["w"][k])}
        IN  IF Cardinality(pairs) < 3
            THEN ret.status = "raised" /\ ret.msg = "SampleTooSmall"
            ELSE IF call.method \in SupportedMethods
            THEN ret.status = "ok" /\ ret.n = Cardinality(pairs)
            ELSE /\ ret.status = "raised"
                 /\ ret.msg = "UnsupportedMethod"
                 /\ ret.allowed = {"spearman", "pearson", "kendall"}

----------------------------------------------------------------------------
(* State machine: apply_fdr_correction on a list of p-values *)

MaxPValues == 3       \* p-values passed to one correction

\* p-values, in hundredths
PValues == {Frac(k, 100) : k \in {0, 1, 3, 4, 50, 100}}

PValueLists == UNION { [1..n -> PValues] : n \in 0..MaxPValues }

CorrectionMethods == {"fdr_bh", "bonferroni"}

CallApplyFdrCorrection ==
    /\ call = NoCall
    /\ \E p_values \in PValueLists, method \in CorrectionMethods :
        /\ call' = [op |-> "apply_fdr_correction", p_values |-> p_values,
                    method |-> method, alpha |-> DefaultAlpha]
        /\ ret' = apply_fdr_correction(p_values, method, DefaultAlpha)
    /\ UNCHANGED <<df, questions, crosstab_tiers, pandas2, filters, shown, ct>>

InitFdr ==
    /\ df = <<>>
    /\ questions = QuestionMap
    /\ crosstab_tiers = <<>>
    /\ pandas2 = TRUE
    /\ filters = ImportFilters
    /\ shown = <<>>
    /\ ct = EmptyDataFrame
    /\ call = NoCall
    /\ ret = NoReturn

NextFdr == CallApplyFdrCorrection

SpecFdr == InitFdr /\ [][NextFdr]_vars

FdrCall == call.op = "apply_fdr_correction"

\* the permutations of 1..n
Orderings(n) == {f \in [1..n -> 1..n] : \A i, j \in 1..n : f[i] = f[j] => i = j}

\* the number of p-values of a list that are at most p
Rank(ps, p) == Cardinality({k \in 1..Len(ps) : FracLeq(ps[k], p)})

\* the Benjamini-Hochberg adjusted value of p within the list ps:
\* min(1, min over the q >= p of the list of q * m / rank(q))
Adjusted(ps, p) ==
    LET m == Len(ps)
        candidates == {Frac(ps[k].num * m, ps[k].den * Rank(ps, ps[k])) :
                        k \in {k \in 1..m : FracLeq(p, ps[k])}}
        least == CHOOSE c \in candidates : \A o \in candidates : FracLeq(c, o)
    IN  Reduced(Capped(least))

OrderAndLengthPreserved ==
    LET ps == call.p_values
        n == Len(ps)
    IN  /\ ret.status = "ok"
        /\ Len(ret.reject) = n
        /\ Len(ret.pvals_corrected) = n
        /\ \A f \in Orderings(n) :
            LET r == apply_fdr_correction([i \in 1..n |-> ps[f[i]]],
                                          call.method, call.alpha)
            IN  /\ r.reject = [i \in 1..n |-> ret.reject[f[i]]]
                /\ r.pvals_corrected = [i \in 1..n |-> ret.pvals_corrected[f[i]]]
        /\ \A i, j \in 1..n :
            FracLeq(ps[i], ps[j]) => FracLeq(ret.pvals_corrected[i], ret.pvals_corrected[j])
        /\ call.method = "fdr_bh" =>
            \A i \in 1..n :
                /\ ret.pvals_corrected[i] = Adjusted(ps, ps[i])
                /\ ret.reject[i] = FracLeq(ret.pvals_corrected[i], call.alpha)

\* C16: for every list of p-values, the reject array and the corrected
\* array of apply_fdr_correction have the length of the input, element i
\* belongs to input p-value i (a permuted input gives the same outputs,
\* permuted the same way), and p_i <= p_j implies corrected_i <= corrected_j.
C16_FdrOrderAndLengthPreserved == FdrCall => OrderAndLengthPreserved

\* The same for every list that is not empty: holds.
FdrOrderAndLengthPreservedOnNonEmpty ==
    (FdrCall /\ Len(call.p_values) > 0) => OrderAndLengthPreserved

----------------------------------------------------------------------------
(* core/loader.py and the objects the operations work on *)

\* A dataset as an object: its column names in order, one sequence of
\* cells per column and one dtype per column.
ObjectDtype == [name |-> "object"]
CategoricalDtype(order) == [name |-> "category", categories |-> order, ordered |-> TRUE]

\* df[col] of every column, for the operations that only read the dataset
AsDataset(frame) ==
    [c \in Range(frame.columns) |-> frame.data[Loc(frame.columns, c)]]

\* The objects one call can reach: the one the caller passed and the one
\* the function's local name is bound to.
Passed(value) == [caller |-> value]

\* Mutant: .copy() hands back the object it was called on.
copy_is_same_object(store, ref) == [store |-> store, ref |-> ref]

\* .copy(): a new object with the same content
copy(store, ref) ==
    [store |-> [caller |-> store.caller, local |-> store[ref]], ref |-> "local"]

\* name = <expression building a new object>
Bind(store, value) ==
    [store |-> [caller |-> store.caller, local |-> value], ref |-> "local"]

\* the characters of the column names in use
NameChars ==
    [n \in {"a", "b", " a", "b ", "nope"} |->
        CASE n = "a" -> <<"a">>
          [] n = "b" -> <<"b">>
          [] n = " a" -> <<" ", "a">>
          [] n = "b " -> <<"b", " ">>
          [] n = "nope" -> <<"n", "o", "p", "e">>]

\* df.columns.str.strip(), one name
Index_str_strip(name) ==
    CHOOSE n \in DOMAIN NameChars : NameChars[n] = str_strip(NameChars[name])

\* clean_column_names
clean_column_names(passed) ==
    LET c == copy(passed, "caller")
        columns == c.store[c.ref].columns
        after == [c.store EXCEPT ![c.ref].columns =
                    [k \in 1..Len(columns) |-> Index_str_strip(columns[k])]]
    IN  [store |-> after, status |-> "ok", frame |-> after[c.ref]]

NRows(frame) == IF frame.data = <<>> THEN 0 ELSE Len(frame.data[1])

\* the rows from i on that hold no missing value, in order
RECURSIVE CompleteRows(_, _)
CompleteRows(frame, i) ==
    IF i > NRows(frame) THEN <<>>
    ELSE (IF \A c \in 1..Len(frame.columns) : ~isna(frame.data[c][i])
          THEN <<i>> ELSE <<>>) \o CompleteRows(frame, i + 1)

\* df.dropna()
frame_dropna(frame) ==
    LET rows == CompleteRows(frame, 1)
    IN  [frame EXCEPT !.data =
            [c \in 1..Len(frame.columns) |->
                [k \in 1..Len(rows) |-> frame.data[c][rows[k]]]]]

\* df.fillna(value)
frame_fillna(frame, value) ==
    [frame EXCEPT !.data =
        [c \in 1..Len(frame.columns) |->
            [i \in 1..NRows(frame) |->
                IF isna(frame.data[c][i]) THEN value ELSE frame.data[c][i]]]]

NoFillValue == [given |-> FALSE]
FillValue(cell) == [given |-> TRUE, value |-> cell]

\* handle_missing_values
handle_missing_values(passed, strategy, fill_value) ==
    LET c == copy(passed, "caller")
        df1 == c.store[c.ref]
        b == IF strategy = "drop" THEN Bind(c.store, frame_dropna(df1))
             ELSE IF strategy = "fill"
                  THEN Bind(c.store,
                            frame_fillna(df1, IF fill_value.given THEN fill_value.value
                                              ELSE Str(<<>>)))
                  ELSE c
    IN  [store |-> b.store, status |-> "ok", frame |-> b.store[b.ref]]

\* pd.Categorical(values, categories=order, ordered=True): a value the
\* order does not list becomes missing
Categorical(cells, order) ==
    [i \in 1..Len(cells) |->
        IF ~isna(cells[i]) /\ cells[i].kind = "str" /\ cells[i].val \in Range(order)
        THEN cells[i] ELSE NA]

\* df[col_name] = pd.Categorical(...), on the object the name is bound to
SetCategorical(store, ref, col_name, order) ==
    LET k == Loc(store[ref].columns, col_name)
    IN  [store EXCEPT ![ref].data[k] = Categorical(store[ref].data[k], order),
                      ![ref].dtypes[k] = CategoricalDtype(order)]

\* the loop of convert_ordered_categories over config.category_orders
RECURSIVE ConvertLoop(_, _, _, _)
ConvertLoop(store, ref, q, orders) ==
    IF orders = <<>> THEN store
    ELSE LET col_name == get_column_name(q, Head(orders).key)
         IN  IF col_name \notin Range(store[ref].columns)
             THEN ConvertLoop(store, ref, q, Tail(orders))
             ELSE ConvertLoop(SetCategorical(store, ref, col_name, Head(orders).order),
                              ref, q, Tail(orders))

\* convert_ordered_categories
convert_ordered_categories(passed, q, category_orders) ==
    LET c == copy(passed, "caller")
        after == ConvertLoop(c.store, c.ref, q, category_orders)
    IN  [store |-> after, status |-> "ok", frame |-> after[c.ref]]

----------------------------------------------------------------------------
(* core/crosstab.py: calculate_row_percentages, calculate_column_percentages *)

\* round(1) of a percentage: the nearest tenth, a tie to the even tenth;
\* 0/0 stays not-a-number
round1(f) ==
    IF f.den = 0 THEN f
    ELSE LET scaled == f.num * 10
             low == scaled \div f.den
             twice == 2 * (scaled % f.den)
         IN  Frac(IF twice > f.den \/ (twice = f.den /\ low % 2 = 1)
                  THEN low + 1 ELSE low, 10)

\* Mutant: the total column stays in the table and in the row sums.
calculate_row_percentages_with_total(t) ==
    [t EXCEPT !.dtype = "float64", !.values =
        [i \in 1..Len(t.index) |->
            [j \in 1..Len(t.columns) |->
                round1(Frac(t.values[i][j] * 100, RowSum(t, i)))]]]

\* calculate_row_percentages
calculate_row_percentages(t) ==
    LET ct_clean == IF MarginsName \in Range(t.columns)
                    THEN DropColumn(t, MarginsName) ELSE t
    IN  [ct_clean EXCEPT !.dtype = "float64", !.values =
            [i \in 1..Len(ct_clean.index) |->
                [j \in 1..Len(ct_clean.columns) |->
                    round1(Frac(ct_clean.values[i][j] * 100, RowSum(ct_clean, i)))]]]

\* calculate_column_percentages
calculate_column_percentages(t) ==
    LET ct_clean == IF MarginsName \in Range(t.index)
                    THEN DropRow(t, MarginsName) ELSE t
    IN  [ct_clean EXCEPT !.dtype = "float64", !.values =
            [i \in 1..Len(ct_clean.index) |->
                [j \in 1..Len(ct_clean.columns) |->
                    round1(Frac(ct_clean.values[i][j] * 100, ColumnSum(ct_clean, j)))]]]

----------------------------------------------------------------------------
(* State machine: any sequence of calls on one dataset and one table *)

\* config.category_orders, in the order of the dictionary
category_orders ==
    << [key |-> "q1", order |-> << <<"x">> >>],
       [key |-> "q3", order |-> << <<"x">>, <<"y">> >>],
       [key |-> "b", order |-> << <<"y">>, <<"x">> >>] >>

FrameColumns == { <<"a", "b">>, <<" a", "b ">> }

MaxRecords == 2       \* rows of the dataset the calls are made on

InitFrame ==
    /\ \E n \in 0..MaxRecords, columns \in FrameColumns :
        \E data \in [1..2 -> [1..n -> CategoricalCells]] :
            df = [columns |-> columns, data |-> data,
                  dtypes |-> <<ObjectDtype, ObjectDtype>>]
    /\ questions = QuestionMap
    /\ crosstab_tiers = <<>>
    /\ pandas2 = TRUE
    /\ filters = ImportFilters
    /\ shown = <<>>
    /\ \E margins \in BOOLEAN :
        ct = create_crosstab(AsDataset(df), df.columns[1], df.columns[2],
                             NoConfig, "None", margins).table
    /\ call = NoCall
    /\ ret = NoReturn

CallCleanColumnNames ==
    LET r == clean_column_names(Passed(df))
    IN  /\ call' = [op |-> "clean_column_names"]
        /\ ret' = [status |-> r.status, frame |-> r.frame]
        /\ df' = r.store.caller
        /\ UNCHANGED <<questions, crosstab_tiers, pandas2, filters, shown, ct>>

Strategies == {"keep", "drop", "fill"}
FillValues == {NoFillValue, FillValue(Str(<<"z">>))}

CallHandleMissingValues ==
    \E strategy \in Strategies, fill_value \in FillValues :
        LET r == handle_missing_values(Passed(df), strategy, fill_value)
        IN  /\ call' = [op |-> "handle_missing_values", strategy |-> strategy,
                        fill_value |-> fill_value]
            /\ ret' = [status |-> r.status, frame |-> r.frame]
            /\ df' = r.store.caller
            /\ UNCHANGED <<questions, crosstab_tiers, pandas2, filters, shown, ct>>

CallConvertOrderedCategories ==
    LET r == convert_ordered_categories(Passed(df), questions, category_orders)
    IN  /\ call' = [op |-> "convert_ordered_categories"]
        /\ ret' = [status |-> r.status, frame |-> r.frame]
        /\ df' = r.store.caller
        /\ UNCHANGED <<questions, crosstab_tiers, pandas2, filters, shown, ct>>

\* the operations that hold no statement assigning into the dataset they
\* are given: they read it through df[col]
DatasetReaders ==
    {"create_crosstab", "create_multiselect_crosstab", "chi_square_test",
     "correlation_test"}

ReadDataset(op, d, row_var, col_var) ==
    CASE op = "create_crosstab" ->
            create_crosstab(d, row_var, col_var, NoConfig, "index", TRUE)
      [] op = "create_multiselect_crosstab" ->
            create_multiselect_crosstab(d, row_var, col_var, NoConfig, Delimiter)
      [] op = "chi_square_test" -> chi_square_test(d, row_var, col_var, NoConfig)
      [] op = "correlation_test" ->
            correlation_test(d, row_var, col_var, "spearman", NoConfig)

CallOnDataset ==
    \E op \in DatasetReaders :
        /\ call' = [op |-> op, row_var |-> "a", col_var |-> "b"]
        /\ ret' = ReadDataset(op, AsDataset(df), "a", "b")
        /\ UNCHANGED <<df, questions, crosstab_tiers, pandas2, filters, shown, ct>>

\* the operations on a table: each starts with ct.copy() and builds its
\* result from the copy
TableReaders ==
    {"get_crosstab_summary", "filter_crosstab_by_category",
     "calculate_row_percentages", "calculate_column_percentages"}

ReadTable(op, t) ==
    CASE op = "get_crosstab_summary" -> get_crosstab_summary(t, "a", "b")
      [] op = "filter_crosstab_by_category" ->
            filter_crosstab_by_category(t, List(<< <<"x">> >>), None)
      [] op = "calculate_row_percentages" ->
            [status |-> "ok", table |-> calculate_row_percentages(t)]
      [] op = "calculate_column_percentages" ->
            [status |-> "ok", table |-> calculate_column_percentages(t)]

CallOnTable ==
    \E op \in TableReaders :
        LET c == copy(Passed(ct), "caller")
        IN  /\ call' = [op |-> op]
            /\ ret' = ReadTable(op, c.store[c.ref])
            /\ ct' = c.store.caller
            /\ UNCHANGED <<df, questions, crosstab_tiers, pandas2, filters, shown>>

\* core/audit.py: check_data_validity.  For every key of
\* config.category_orders whose column the dataset has: the values of the
\* column that are present and not in the order; invalid_values keeps the
\* keys with such a value.
CheckedKeys(frame, q, orders) ==
    {k \in 1..Len(orders) : get_column_name(q, orders[k].key) \in Range(frame.columns)}

ActualValues(frame, col_name) ==
    LET cells == frame.data[Loc(frame.columns, col_name)]
    IN  {cells[i].val : i \in {k \in 1..Len(cells) : ~isna(cells[k])}}

InvalidOf(frame, q, entry) ==
    ActualValues(frame, get_column_name(q, entry.key)) \ Range(entry.order)

check_data_validity(frame, q, orders) ==
    LET checked == CheckedKeys(frame, q, orders)
        keys == {orders[k].key : k \in checked}
        EntryOf(key) == orders[CHOOSE k \in checked : orders[k].key = key]
    IN  [status |-> "ok",
         category_validity |->
            [key \in keys |->
                [column |-> get_column_name(q, key),
                 expected_values |-> Range(EntryOf(key).order),
                 invalid_values |-> InvalidOf(frame, q, EntryOf(key)),
                 is_valid |-> InvalidOf(frame, q, EntryOf(key)) = {}]],
         invalid_values |->
            [key \in {x \in keys : InvalidOf(frame, q, EntryOf(x)) # {}} |->
                InvalidOf(frame, q, EntryOf(key))]]

\* the operations of the loader that return a dataset
FrameReturning ==
    {"clean_column_names", "handle_missing_values", "convert_ordered_categories"}

\* check_data_validity on the caller's dataset, or on the dataset the last
\* call of the loader returned
CallCheckDataValidity ==
    \E returned \in BOOLEAN :
        /\ returned => (call # NoCall /\ call.op \in FrameReturning /\ ret.status = "ok")
        /\ call' = [op |-> "check_data_validity",
                    after |-> IF returned THEN call.op ELSE "load_raw_data"]
        /\ ret' = check_data_validity(IF returned THEN ret.frame ELSE df,
                                      questions, category_orders)
        /\ UNCHANGED <<df, questions, crosstab_tiers, pandas2, filters, shown, ct>>

NextFrame ==
    \/ CallCleanColumnNames
    \/ CallHandleMissingValues
    \/ CallConvertOrderedCategories
    \/ CallOnDataset
    \/ CallOnTable
    \/ CallCheckDataValidity

SpecFrame == InitFrame /\ [][NextFrame]_vars

----------------------------------------------------------------------------
(* State machine: column-name resolution *)

\* config.questions of the configurations in use: the usual mapping, no
\* mapping at all, and one whose key "a" is also the name of a column
QuestionMaps == {QuestionMap, <<>>, [q1 |-> "a", a |-> "b"]}

Identifiers == {"q1", "q2", "q3", "a", "b", "zz"}

InitLookup ==
    /\ \E n \in 0..MaxRecords : df \in [{"a", "b"} -> [1..n -> CategoricalCells]]
    /\ questions \in QuestionMaps
    /\ crosstab_tiers = <<>>
    /\ pandas2 = TRUE
    /\ filters = ImportFilters
    /\ shown = <<>>
    /\ ct = EmptyDataFrame
    /\ call = NoCall
    /\ ret = NoReturn

CallGetColumnName ==
    /\ \E question_id \in Identifiers :
        /\ call' = [op |-> "get_column_name", question_id |-> question_id]
        /\ ret' = [status |-> "ok",
                   value |-> get_column_name(questions, question_id)]
    /\ UNCHANGED <<df, questions, crosstab_tiers, pandas2, filters, shown, ct>>

\* create_crosstab with a configuration, on identifiers and on column names
CallCreateCrosstabResolved ==
    /\ \E row_var \in Identifiers, col_var \in Identifiers :
        /\ call' = [op |-> "create_crosstab", row_var |-> row_var,
                    col_var |-> col_var, config |-> TRUE]
        /\ ret' = create_crosstab(df, row_var, col_var, TheConfig(TRUE),
                                  "None", FALSE)
    /\ UNCHANGED <<df, questions, crosstab_tiers, pandas2, filters, shown, ct>>

NextLookup == CallGetColumnName \/ CallCreateCrosstabResolved

SpecLookup == InitLookup /\ [][NextLookup]_vars

Mapped(id) == id \in DOMAIN questions

\* the column an identifier stands for: its mapping, else itself
Meant(id) == IF Mapped(id) THEN questions[id] ELSE id

\* C18: get_column_name returns the mapped column name when the identifier
\* is a key of questions and the identifier itself when it is not, and
\* never raises; an operation given a configuration therefore takes an
\* identifier and a column name alike: it works on the columns they stand
\* for, and fails with column-not-found only when such a column is absent.
C18_LookupWithFallback ==
    /\ call.op = "get_column_name" =>
        /\ ret.status = "ok"
        /\ Mapped(call.question_id) => ret.value = questions[call.question_id]
        /\ ~Mapped(call.question_id) => ret.value = call.question_id
    /\ (call.op = "create_crosstab" /\ call.config) =>
        IF Meant(call.row_var) \in DOMAIN df /\ Meant(call.col_var) \in DOMAIN df
        THEN ret = create_crosstab(df, Meant(call.row_var), Meant(call.col_var),
                                   NoConfig, "None", FALSE)
        ELSE ret.status = "raised" /\ ret.msg = "ColumnNotFound"

\* An unmapped identifier came back unchanged, and a table was built from a
\* short identifier and a literal column name together.
C18_Witness ==
    \/ /\ call.op = "get_column_name"
       /\ ~Mapped(call.question_id)
       /\ ret.value = call.question_id
       /\ questions # <<>>
    \/ /\ call.op = "create_crosstab"
       /\ Mapped(call.row_var) /\ ~Mapped(call.col_var)
       /\ ret.status = "ok"
       /\ Len(ret.table.index) > 0

----------------------------------------------------------------------------
(* core/stats.py: interpret_effect_size *)

\* abs(x)
abs(x) == IF x.num < 0 THEN Frac(0 - x.num, x.den) ELSE x

\* interpret_effect_size; the labels are named in English
interpret_effect_size(effect_size, effect_type) ==
    IF effect_type = "cramers_v"
    THEN IF lt(effect_size, Frac(1, 10)) THEN "NoEffect"
         ELSE IF lt(effect_size, Frac(3, 10)) THEN "WeakAssociation"
         ELSE IF lt(effect_size, Frac(5, 10)) THEN "ModerateAssociation"
         ELSE "StrongAssociation"
    ELSE IF effect_type = "cohens_d"
    THEN LET abs_d == abs(effect_size)
         IN  IF lt(abs_d, Frac(2, 10)) THEN "NoEffect"
             ELSE IF lt(abs_d, Frac(5, 10)) THEN "SmallEffect"
             ELSE IF lt(abs_d, Frac(8, 10)) THEN "ModerateEffect"
             ELSE "LargeEffect"
    ELSE IF effect_type = "eta_squared"
    THEN IF lt(effect_size, Frac(1, 100)) THEN "NoEffect"
         ELSE IF lt(effect_size, Frac(6, 100)) THEN "SmallEffect"
         ELSE IF lt(effect_size, Frac(14, 100)) THEN "ModerateEffect"
         ELSE "LargeEffect"
    ELSE IF effect_type = "correlation"
    THEN LET abs_r == abs(effect_size)
         IN  IF lt(abs_r, Frac(1, 10)) THEN "NoCorrelation"
             ELSE IF lt(abs_r, Frac(3, 10)) THEN "WeakCorrelation"
             ELSE IF lt(abs_r, Frac(5, 10)) THEN "ModerateCorrelation"
             ELSE IF lt(abs_r, Frac(7, 10)) THEN "StrongCorrelation"
             ELSE "VeryStrongCorrelation"
    ELSE "Unknown"

----------------------------------------------------------------------------
(* State machine: interpret_effect_size on one value *)

\* effect sizes in thousandths: each threshold, its two neighbours, values
\* of either sign away from the thresholds, and not-a-number
Thousandths ==
    {-1000, -800, -500, -201, -200, -199, -100, -10, 0, 9, 10, 11, 59, 60, 61,
     99, 100, 101, 139, 140, 141, 199, 200, 201, 299, 300, 301, 499, 500, 501,
     699, 700, 701, 799, 800, 801, 1000, 2500}

EffectSizes == {Frac(k, 1000) : k \in Thousandths} \cup {NaN}

EffectTypes == {"cramers_v", "cohens_d", "eta_squared", "correlation", "odds_ratio"}

InitEffect ==
    /\ df = <<>>
    /\ questions = QuestionMap
    /\ crosstab_tiers = <<>>
    /\ pandas2 = TRUE
    /\ filters = ImportFilters
    /\ shown = <<>>
    /\ ct = EmptyDataFrame
    /\ call = NoCall
    /\ ret = NoReturn

CallInterpretEffectSize ==
    /\ \E effect_size \in EffectSizes, effect_type \in EffectTypes :
        /\ call' = [op |-> "interpret_effect_size", effect_size |-> effect_size,
                    effect_type |-> effect_type]
        /\ ret' = [status |-> "ok",
                   label |-> interpret_effect_size(effect_size, effect_type)]
    /\ UNCHANGED <<df, questions, crosstab_tiers, pandas2, filters, shown, ct>>

NextEffect == CallInterpretEffectSize

SpecEffect == InitEffect /\ [][NextEffect]_vars

\* the glossary: per kind, the three thresholds in thousandths, the four
\* labels from the lowest band up, and whether the absolute value is banded
Glossary ==
    [cramers_v |-> [thresholds |-> <<100, 300, 500>>, absolute |-> FALSE,
                    labels |-> <<"NoEffect", "WeakAssociation",
                                 "ModerateAssociation", "StrongAssociation">>],
     cohens_d |-> [thresholds |-> <<200, 500, 800>>, absolute |-> TRUE,
                   labels |-> <<"NoEffect", "SmallEffect",
                                "ModerateEffect", "LargeEffect">>],
     eta_squared |-> [thresholds |-> <<10, 60, 140>>, absolute |-> FALSE,
                      labels |-> <<"NoEffect", "SmallEffect",
                                   "ModerateEffect", "LargeEffect">>]]

\* the number of thresholds a value in thousandths is not below; a value
\* that is not a number is below none of them
Reached(k, thresholds) ==
    Cardinality({i \in 1..Len(thresholds) :
                    isnan(call.effect_size) \/ k >= thresholds[i]})

\* the value of the call in thousandths, its sign dropped where the kind
\* bands the absolute value
Banded ==
    LET k == call.effect_size.num
    IN  IF Glossary[call.effect_type].absolute /\ k < 0 THEN 0 - k ELSE k

----------------------------------------------------------------------------
(* Properties of the correction within a batch *)

CorrectedBatchCall == RunAllCall /\ call.apply_correction

\* the positions of the pairs whose test gives a valid p-value
ValidPairs ==
    {i \in 1..Len(call.pairs) :
        /\ TestOf(call.pairs[i]).status = "ok"
        /\ ~isnan(TestOf(call.pairs[i]).p_value)}

\* the number of valid pairs up to position i
RankAmongValid(i) == Cardinality({k \in ValidPairs : k <= i})

\* the valid p-values in the order of their pairs
RECURSIVE ValidPValuesFrom(_)
ValidPValuesFrom(i) ==
    IF i > Len(call.pairs) THEN <<>>
    ELSE (IF i \in ValidPairs THEN <<TestOf(call.pairs[i]).p_value>> ELSE <<>>)
         \o ValidPValuesFrom(i + 1)

\* row i of the returned frame is the result of pair i, a row with a valid
\* p-value holds the value the correction of the valid p-values gives it,
\* and any other row holds neither a corrected value nor a mark
CorrectedOverValid ==
    /\ Len(ret.results) = Len(call.pairs)
    /\ \A i \in 1..Len(ret.results) :
        /\ ret.results[i].var1 = call.pairs[i][1]
        /\ ret.results[i].var2 = call.pairs[i][2]
    /\ ValidPairs # {} =>
        /\ ret.columns = {"p_value_corrected", "significant"}
        /\ \A i \in 1..Len(call.pairs) :
            IF i \in ValidPairs
            THEN ret.p_value_corrected[i] =
                    apply_fdr_correction(ValidPValuesFrom(1), "fdr_bh",
                        call.alpha).pvals_corrected[RankAmongValid(i)]
            ELSE isnan(ret.p_value_corrected[i]) /\ isnan(ret.significant[i])
    /\ ValidPairs = {} => ret.columns = {}

\* C20: run_all_chi_square_tests with correction requested corrects only
\* over the results that carry a valid p-value: result i keeps the position
\* of pair i, a result with a valid p-value receives the value computed
\* from exactly the valid p-values in their order, and a result without a
\* valid p-value receives neither a corrected p-value nor a mark.
C20_CorrectionOverValidResults ==
    CorrectedBatchCall => (ret.status = "ok" /\ CorrectedOverValid)

\* The same on the batches that return a frame: holds; every row of a
\* returned frame carries a valid p-value.
CorrectionOverValidOnReturnedBatch ==
    (CorrectedBatchCall /\ ret.status = "ok") =>
        /\ CorrectedOverValid
        /\ ValidPairs = 1..Len(call.pairs)


\* A batch of two good pairs came back corrected: both p-values are 1, so
\* are both corrected values, and neither pair is marked significant.
CorrectedBatchReturned ==
    /\ CorrectedBatchCall
    /\ ret.status = "ok"
    /\ Len(ret.results) = 2
    /\ ret.p_value_corrected = <<Frac(1, 1), Frac(1, 1)>>
    /\ ret.significant = <<FALSE, FALSE>>

----------------------------------------------------------------------------
(* Properties of the normalization over the whole table *)

\* the dataset rows counted in cell (i, j) of the table of the last call
RowsOfCell(t, i, j) ==
    {k \in JointRows : /\ df[RowCol][k].val = t.index[i]
                       /\ df[ColCol][k].val = t.columns[j]}

\* the cells of a table, row by row, as fractions; a cell of the reserved
\* row or column counts as 0
RECURSIVE InteriorCells(_, _)
InteriorCells(t, i) ==
    IF i > Len(t.index) THEN <<>>
    ELSE [j \in 1..Len(t.columns) |->
            IF t.index[i] = MarginsName \/ t.columns[j] = MarginsName
            THEN Frac(0, 1) ELSE AsFrac(t, t.values[i][j])]
         \o InteriorCells(t, i + 1)

NormalizeAllCall == call.op = "create_crosstab" /\ call.normalize = "all"

\* C21: create_crosstab with normalize='all' divides every cell by the
\* grand total and rescales to percent: for every dataset with at least one
\* counted row the cells of the result sum to 100 and each cell equals
\* count / grand total * 100.
C21_NormalizeAllByGrandTotal ==
    (NormalizeAllCall /\ BothColumnsExist /\ JointRows # {}) =>
        /\ ret.status = "ok"
        /\ FracEq(FracSum(InteriorCells(ret.table, 1)), Frac(100, 1))
        /\ \A p \in Interior(ret.table) :
            FracEq(ret.table.values[p[1]][p[2]],
                   Frac(100 * Cardinality(RowsOfCell(ret.table, p[1], p[2])),
                        Cardinality(JointRows)))

\* What the code does with normalize='all': the same as with 'columns'.
NormalizeAllIsByColumns ==
    (NormalizeAllCall /\ BothColumnsExist) =>
        ret = create_crosstab(df, call.row_var, call.col_var, TheConfig(call.config),
                              "columns", call.margins)


\* Two respondents in two different cells, no margins: normalize='all'
\* gives each column 100 percent, so the cells sum to 200.
NormalizeAllSumsTo200 ==
    /\ NormalizeAllCall /\ ~call.margins /\ ret.status = "ok"
    /\ Cardinality(JointRows) = 2
    /\ Len(ret.table.index) = 2 /\ Len(ret.table.columns) = 2
    /\ FracEq(FracSum(InteriorCells(ret.table, 1)), Frac(200, 1))

----------------------------------------------------------------------------
(* Properties of the denominators *)

\* the dataset rows counted in interior row i, in interior column j
RowsOfRow(t, i) == {k \in JointRows : df[RowCol][k].val = t.index[i]}
RowsOfColumn(t, j) == {k \in JointRows : df[ColCol][k].val = t.columns[j]}

\* C22: margins never enter a percentage denominator: in every call path,
\* create_crosstab with margins=True and a normalize option included, each
\* normalized interior cell equals its count divided by the sum of the
\* interior cells of its row (for 'index') or column (for 'columns'), times
\* 100.
C22_MarginsOutsideDenominator ==
    (BuildCall /\ call.normalize \in {"index", "columns"} /\ ret.status = "ok") =>
        \A p \in Interior(ret.table) :
            FracEq(ret.table.values[p[1]][p[2]],
                   Frac(100 * Cardinality(RowsOfCell(ret.table, p[1], p[2])),
                        IF call.normalize = "index"
                        THEN Cardinality(RowsOfRow(ret.table, p[1]))
                        ELSE Cardinality(RowsOfColumn(ret.table, p[2]))))

\* The same for the tables built without margins: holds.
DenominatorIsInteriorSumWithoutMargins ==
    (BuildCall /\ call.normalize \in {"index", "columns"} /\ ret.status = "ok"
        /\ ~call.margins) =>
        \A p \in Interior(ret.table) :
            FracEq(ret.table.values[p[1]][p[2]],
                   Frac(100 * Cardinality(RowsOfCell(ret.table, p[1], p[2])),
                        IF call.normalize = "index"
                        THEN Cardinality(RowsOfRow(ret.table, p[1]))
                        ELSE Cardinality(RowsOfColumn(ret.table, p[2]))))

\* With margins and normalize='index' the total column is part of the row
\* sum: one respondent gives the interior cell 50 and not 100.
MarginCountedTwice ==
    /\ call.op = "create_crosstab" /\ call.margins /\ call.normalize = "index"
    /\ ret.status = "ok" /\ Cardinality(JointRows) = 1
    /\ Len(ret.table.index) = 2 /\ Len(ret.table.columns) = 2
    /\ FracEq(ret.table.values[1][1], Frac(50, 1))

----------------------------------------------------------------------------
(* Properties of the tags of one respondent *)

\* the respondents of row i of the table whose cell holds the tag of column j
Choosers(t, i, j) ==
    {k \in CountedRespondents :
        /\ df[RowCol][k].val = t.index[i]
        /\ t.columns[j] \in TagsOf(df[ColCol][k], call.delimiter)}

\* C23: in create_multiselect_crosstab the cell of a respondent is a set of
\* tags: a respondent adds at most one observation to a tag column, also
\* when the cell repeats the tag, and adds one to every different tag of
\* the cell.
C23_OneObservationPerRespondentAndTag ==
    (MultiselectCall /\ BothColumnsExist /\ ret.status = "ok") =>
        /\ \A i \in 1..Len(ret.table.index), j \in 1..Len(ret.table.columns) :
            ret.table.values[i][j] <= Cardinality(Choosers(ret.table, i, j))
        /\ \A k \in CountedRespondents :
            \A tag \in TagsOf(df[ColCol][k], call.delimiter) :
                \E i \in 1..Len(ret.table.index), j \in 1..Len(ret.table.columns) :
                    /\ ret.table.index[i] = df[RowCol][k].val
                    /\ ret.table.columns[j] = tag
                    /\ ret.table.values[i][j] >= 1

\* The second half alone: a respondent counts under each different tag of
\* the cell.  Holds.
EveryTagOfRespondentCounted ==
    (MultiselectCall /\ BothColumnsExist /\ ret.status = "ok") =>
        \A k \in CountedRespondents :
            \A tag \in TagsOf(df[ColCol][k], call.delimiter) :
                \E i \in 1..Len(ret.table.index), j \in 1..Len(ret.table.columns) :
                    /\ ret.table.index[i] = df[RowCol][k].val
                    /\ ret.table.columns[j] = tag
                    /\ ret.table.values[i][j] >= Cardinality(Choosers(ret.table, i, j))

\* One respondent whose cell names one tag twice is counted twice under it.
RepeatedTagCountedTwice ==
    /\ MultiselectCall /\ BothColumnsExist /\ ret.status = "ok"
    /\ Cardinality(CountedRespondents) = 1
    /\ Len(ret.table.index) = 1 /\ Len(ret.table.columns) = 1
    /\ ret.table.values[1][1] = 2


----------------------------------------------------------------------------
(* core/stats.py: anova_test *)

\* the keys of df.groupby(group_col): the group values in sorted order; a
\* row whose group cell is missing belongs to no group
GroupKeys(groupc) ==
    SortLabels({groupc[k].val : k \in {i \in 1..Len(groupc) : ~isna(groupc[i])}})

\* df.groupby(group_col)[value_col].apply(list).to_dict(): for each group
\* the list of its value cells, the missing ones included
groupby_apply_list(d, group_col, value_col) ==
    LET keys == GroupKeys(d[group_col])
    IN  [k \in 1..Len(keys) |->
            [key |-> keys[k],
             values |-> GroupValues(d[group_col], d[value_col], Str(keys[k]))]]

RECURSIVE Concatenate(_)
Concatenate(lists) ==
    IF lists = <<>> THEN <<>> ELSE Head(lists) \o Concatenate(Tail(lists))

RECURSIVE Product(_)
Product(s) == IF s = <<>> THEN 1 ELSE Head(s) * Product(Tail(s))

Total(cells) == SumSeq([k \in 1..Len(cells) |-> cells[k].val])

\* eta squared of the groups, ss_between / ss_total, as an exact fraction:
\* with N values of sum S and groups of n_g values of sum S_g,
\* ss_between = sum (S_g N - S n_g)^2 / (n_g N^2) and
\* ss_total = sum (x N - S)^2 / N^2.  A missing value makes ss_total NaN,
\* "ss_total > 0" false and the result 0.
EtaSquared(arrays) ==
    LET all_data == Concatenate(arrays)
        N  == Len(all_data)
        S  == Total(all_data)
        P  == Product([g \in 1..Len(arrays) |-> Len(arrays[g])])
        between == SumSeq([g \in 1..Len(arrays) |->
                        Square(Total(arrays[g]) * N - S * Len(arrays[g]))
                            * (P \div Len(arrays[g]))])
        total == SumSeq([k \in 1..N |-> Square(all_data[k].val * N - S)])
    IN  IF \E k \in 1..N : isna(all_data[k]) THEN Frac(0, 1)
        ELSE IF total > 0 THEN Reduced(Frac(between, P * total))
        ELSE Frac(0, 1)

\* anova_test.  The F statistic and the p-value are not computed.
anova_test(d, group_var, value_var, config) ==
    LET group_col == ResolveColumn(config, group_var)
        value_col == ResolveColumn(config, value_var)
    IN  IF group_col \notin DOMAIN d
        THEN Raised("ValueError", "ColumnNotFound", group_col)
        ELSE IF value_col \notin DOMAIN d
        THEN Raised("ValueError", "ColumnNotFound", value_col)
        ELSE LET groups == groupby_apply_list(d, group_col, value_col)
                 arrays == SelectSeq([k \in 1..Len(groups) |-> groups[k].values],
                                         LAMBDA v : Len(v) > 0)
             IN  IF Len(arrays) < 2
                 THEN Raised("ValueError", "TooFewGroups", <<Len(arrays)>>)
                 ELSE [status |-> "ok", test |-> "anova",
                       group_var |-> group_var, value_var |-> value_var,
                       eta_squared |-> EtaSquared(arrays),
                       n_groups |-> Len(arrays),
                       group_sizes |-> [k \in 1..Len(groups) |->
                                           [key |-> groups[k].key,
                                            size |-> Len(groups[k].values)]]]

----------------------------------------------------------------------------
(* State machine: the four single-item tests on one dataset *)

StatOperations ==
    {"chi_square_test", "t_test_independent", "anova_test", "correlation_test"}

\* the columns each test is given when both exist: two categorical ones,
\* a group and a value, two numeric ones
StatColumns(op) ==
    CASE op = "chi_square_test" -> <<"g", "g">>
      [] op = "correlation_test" -> <<"v", "v">>
      [] OTHER -> <<"g", "v">>

StatIdentifiers(op) ==
    CASE op = "chi_square_test" -> <<"q1", "q1">>
      [] op = "correlation_test" -> <<"q2", "q2">>
      [] OTHER -> <<"q1", "q2">>

\* (first variable, second variable, with config) of a call: both columns
\* present, the first absent, the second absent, both absent
StatVariables(op) ==
    { <<StatColumns(op)[1], StatColumns(op)[2], FALSE>>,
      <<StatIdentifiers(op)[1], StatIdentifiers(op)[2], TRUE>>,
      <<"q3", StatColumns(op)[2], TRUE>>,
      <<StatColumns(op)[1], "zz", FALSE>>,
      <<"zz", "q3", TRUE>>,
      <<"q3", "q3", FALSE>> }

InitStats ==
    /\ \/ \E n \in 0..MaxRecords :
            \E g \in [1..n -> GroupCells], v \in [1..n -> ValueCells] :
                df = [g |-> g, v |-> v]
       \/ df = ExampleGroups
    /\ questions = [q1 |-> "g", q2 |-> "v", q3 |-> "nope"]
    /\ crosstab_tiers = <<>>
    /\ pandas2 = TRUE
    /\ filters = ImportFilters
    /\ shown = <<>>
    /\ ct = EmptyDataFrame
    /\ call = NoCall
    /\ ret = NoReturn

CallChiSquareOnDataset ==
    /\ call = NoCall
    /\ \E p \in StatVariables("chi_square_test") :
        /\ call' = [op |-> "chi_square_test", first |-> p[1], second |-> p[2],
                    config |-> p[3]]
        /\ ret' = chi_square_test(df, p[1], p[2], TheConfig(p[3]))
    /\ UNCHANGED <<df, questions, crosstab_tiers, pandas2, filters, shown, ct>>

CallTTestOnDataset ==
    /\ call = NoCall
    /\ \E p \in StatVariables("t_test_independent"), groups \in TTestGroups :
        /\ call' = [op |-> "t_test_independent", first |-> p[1], second |-> p[2],
                    config |-> p[3], group1 |-> groups[1], group2 |-> groups[2]]
        /\ ret' = t_test_independent(df, p[1], p[2], groups[1], groups[2],
                                     TheConfig(p[3]))
    /\ UNCHANGED <<df, questions, crosstab_tiers, pandas2, filters, shown, ct>>

CallAnovaOnDataset ==
    /\ call = NoCall
    /\ \E p \in StatVariables("anova_test") :
        /\ call' = [op |-> "anova_test", first |-> p[1], second |-> p[2],
                    config |-> p[3]]
        /\ ret' = anova_test(df, p[1], p[2], TheConfig(p[3]))
    /\ UNCHANGED <<df, questions, crosstab_tiers, pandas2, filters, shown, ct>>

CallCorrelationOnDataset ==
    /\ call = NoCall
    /\ \E p \in StatVariables("correlation_test"), method \in Methods :
        /\ call' = [op |-> "correlation_test", first |-> p[1], second |-> p[2],
                    config |-> p[3], method |-> method]
        /\ ret' = correlation_test(df, p[1], p[2], method, TheConfig(p[3]))
    /\ UNCHANGED <<df, questions, crosstab_tiers, pandas2, filters, shown, ct>>

NextStats ==
    \/ CallChiSquareOnDataset
    \/ CallTTestOnDataset
    \/ CallAnovaOnDataset
    \/ CallCorrelationOnDataset

SpecStats == InitStats /\ [][NextStats]_vars

StatCall == call.op \in StatOperations

FirstCol == ResolveColumn(TheConfig(call.config), call.first)
SecondCol == ResolveColumn(TheConfig(call.config), call.second)

\* C24: chi_square_test, t_test_independent, anova_test and
\* correlation_test raise column-not-found before any computation: when a
\* resolved column is absent the call fails with column-not-found, whatever
\* the categories, the group sizes, the number of pairs and the method, and
\* the error names the resolved column that is absent (the first of the
\* two when both are).
C24_ColumnNotFoundFirst ==
    (StatCall /\ (FirstCol \notin DOMAIN df \/ SecondCol \notin DOMAIN df)) =>
        /\ ret.status = "raised"
        /\ ret.msg = "ColumnNotFound"
        /\ ret.name = (IF FirstCol \notin DOMAIN df THEN FirstCol ELSE SecondCol)

\* correlation_test with an unknown method on an empty dataset and an
\* identifier that resolves to an absent column: the column is reported
C24_Witness ==
    /\ call.op = "correlation_test" /\ call.method = "cosine"
    /\ call.first = "q3" /\ call.config /\ Len(df["v"]) = 0
    /\ ret.status = "raised" /\ ret.msg = "ColumnNotFound" /\ ret.name = "nope"

\* With both columns present each of the four tests returns a result on
\* the two groups of four values
AllFourReturn ==
    /\ StatCall /\ df = ExampleGroups /\ ret.status = "ok"


----------------------------------------------------------------------------
(* State machine: the percentage helpers on a table of counts *)

MaxCategories == 6    \* categories of the longer side of a count table
CellCounts == 0..3

CategoryLabels == << <<"A">>, <<"B">>, <<"C">>, <<"x">>, <<"y">>, <<"z">>,
                     <<"7">>, <<";">> >>

\* the table pd.crosstab returns for the counts: no category without an
\* observation
CountTable(counts, r, c) ==
    [index |-> [i \in 1..r |-> CategoryLabels[i]],
     columns |-> [j \in 1..c |-> CategoryLabels[j]],
     values |-> counts, dtype |-> "int64"]

\* the same with the total row and the total column of margins=True
WithTotals(t) ==
    [index |-> t.index \o <<MarginsName>>,
     columns |-> t.columns \o <<MarginsName>>,
     values |-> [i \in 1..Len(t.index) |-> t.values[i] \o <<RowSum(t, i)>>]
                \o << [j \in 1..Len(t.columns) |-> ColumnSum(t, j)]
                      \o <<SumSeq([i \in 1..Len(t.index) |-> RowSum(t, i)])>> >>,
     dtype |-> "int64"]

\* one row or one column of up to MaxCategories categories, and the tables
\* of up to two by two
CountTableShapes ==
    {s \in (1..MaxCategories) \X (1..MaxCategories) :
        s[1] = 1 \/ s[2] = 1 \/ (s[1] <= 2 /\ s[2] <= 2)}

InitPercent ==
    /\ \E s \in CountTableShapes :
        \E counts \in [1..s[1] -> [1..s[2] -> CellCounts]], margins \in BOOLEAN :
            LET t == CountTable(counts, s[1], s[2])
            IN  /\ \A i \in 1..s[1] : RowSum(t, i) > 0
                /\ \A j \in 1..s[2] : ColumnSum(t, j) > 0
                /\ ct = IF margins THEN WithTotals(t) ELSE t
    /\ df = <<>>
    /\ questions = <<>>
    /\ crosstab_tiers = <<>>
    /\ pandas2 = TRUE
    /\ filters = ImportFilters
    /\ shown = <<>>
    /\ call = NoCall
    /\ ret = NoReturn

CallCalculateRowPercentages ==
    /\ call = NoCall
    /\ call' = [op |-> "calculate_row_percentages"]
    /\ ret' = [status |-> "ok", table |-> calculate_row_percentages(ct)]
    /\ UNCHANGED <<df, questions, crosstab_tiers, pandas2, filters, shown, ct>>

CallCalculateColumnPercentages ==
    /\ call = NoCall
    /\ call' = [op |-> "calculate_column_percentages"]
    /\ ret' = [status |-> "ok", table |-> calculate_column_percentages(ct)]
    /\ UNCHANGED <<df, questions, crosstab_tiers, pandas2, filters, shown, ct>>

NextPercent ==
    \/ CallCalculateRowPercentages
    \/ CallCalculateColumnPercentages

SpecPercent == InitPercent /\ [][NextPercent]_vars

\* the positions of the input table outside its total column / total row
CountColumns == {j \in 1..Len(ct.columns) : ct.columns[j] # MarginsName}
CountRows == {i \in 1..Len(ct.index) : ct.index[i] # MarginsName}

SumOver(S, f(_)) ==
    LET RECURSIVE Go(_)
        Go(T) == IF T = {} THEN 0
                 ELSE LET x == CHOOSE y \in T : TRUE IN f(x) + Go(T \ {x})
    IN  Go(S)

Magnitude(x) == IF x < 0 THEN 0 - x ELSE x

\* a value of one decimal place, v = n/10, is the percentage 100 k / s
\* rounded: |n/10 - 100 k / s| <= 1/20
RoundedPercentage(v, k, s) ==
    /\ v.den = 10
    /\ 2 * Magnitude(v.num * s - 1000 * k) <= s

\* the position in the result of column j (row i) of the input table
ResultColumn(j) == CHOOSE m \in 1..Len(ret.table.columns) : ret.table.columns[m] = ct.columns[j]
ResultRow(i) == CHOOSE m \in 1..Len(ret.table.index) : ret.table.index[m] = ct.index[i]

\* every cell of the result is the count over the sum of the counts of its
\* row (column) outside the total column (row), as a percentage rounded to
\* one decimal place; the total column (row) is not in the result
DividedByInteriorSum ==
    /\ call.op = "calculate_row_percentages" =>
        /\ ret.table.index = ct.index
        /\ Len(ret.table.columns) = Cardinality(CountColumns)
        /\ \A i \in 1..Len(ct.index) : \A j \in CountColumns :
            RoundedPercentage(ret.table.values[i][ResultColumn(j)], ct.values[i][j],
                              SumOver(CountColumns, LAMBDA m : ct.values[i][m]))
    /\ call.op = "calculate_column_percentages" =>
        /\ ret.table.columns = ct.columns
        /\ Len(ret.table.index) = Cardinality(CountRows)
        /\ \A j \in 1..Len(ct.columns) : \A i \in CountRows :
            RoundedPercentage(ret.table.values[ResultRow(i)][j], ct.values[i][j],
                              SumOver(CountRows, LAMBDA m : ct.values[m][j]))

\* the tenths of the sum of row i (column j) of the result
RowTenths(i) == SumSeq([j \in 1..Len(ret.table.columns) |-> ret.table.values[i][j].num])
ColumnTenths(j) == SumSeq([i \in 1..Len(ret.table.index) |-> ret.table.values[i][j].num])

PercentCall ==
    call.op \in {"calculate_row_percentages", "calculate_column_percentages"}

\* C25: calculate_row_percentages and calculate_column_percentages divide
\* each interior cell by the sum of the interior cells of its row (column),
\* the total column (row) left out of the denominator, and round to one
\* decimal place; on a count table whose rows (columns) have a non-zero
\* sum, each row (column) of the rounded result sums to 100 within 0.1.
C25_RoundedPercentagesSumTo100 ==
    PercentCall =>
        /\ DividedByInteriorSum
        /\ call.op = "calculate_row_percentages" =>
            \A i \in 1..Len(ret.table.index) : Magnitude(RowTenths(i) - 1000) <= 1
        /\ call.op = "calculate_column_percentages" =>
            \A j \in 1..Len(ret.table.columns) : Magnitude(ColumnTenths(j) - 1000) <= 1

\* C25 (amended): the cells are the percentages of the interior sums
\* rounded to one decimal place, each within 0.05 of the exact percentage,
\* so that a row (column) of n cells sums to 100 within 0.05 n: within 0.1
\* up to three cells, and 100.2 for six equal cells of 16.7.
C25_RoundedPercentagesSumWithinHalfTenthPerCell ==
    PercentCall =>
        /\ DividedByInteriorSum
        /\ call.op = "calculate_row_percentages" =>
            \A i \in 1..Len(ret.table.index) :
                /\ 2 * Magnitude(RowTenths(i) - 1000) <= Len(ret.table.columns)
                /\ Len(ret.table.columns) <= 3 => Magnitude(RowTenths(i) - 1000) <= 1
        /\ call.op = "calculate_column_percentages" =>
            \A j \in 1..Len(ret.table.columns) :
                /\ 2 * Magnitude(ColumnTenths(j) - 1000) <= Len(ret.table.index)
                /\ Len(ret.table.index) <= 3 => Magnitude(ColumnTenths(j) - 1000) <= 1

\* six equal counts in a row with its total: six cells of 16.7, sum 100.2
C25_Witness ==
    /\ call.op = "calculate_row_percentages"
    /\ Len(ct.columns) = 7 /\ ct.columns[7] = MarginsName
    /\ Len(ret.table.columns) = 6
    /\ \A j \in 1..6 : ret.table.values[1][j] = Frac(167, 10)
    /\ RowTenths(1) = 1002


----------------------------------------------------------------------------
(* Properties of the 'significant' mark of a batch *)

\* what apply_fdr_correction returns for the valid p-values of the batch
\* and the alpha of the configuration
CorrectionOfBatch ==
    apply_fdr_correction(ValidPValuesFrom(1), "fdr_bh", call.alpha)

SignificantAgreesWithRejectOffAlpha ==
    (CorrectedBatchCall /\ ret.status = "ok" /\ ValidPairs # {}) =>
        \A i \in ValidPairs :
            /\ ret.significant[i] = lt(ret.p_value_corrected[i], call.alpha)
            /\ CorrectionOfBatch.reject[RankAmongValid(i)]
                    = FracLeq(ret.p_value_corrected[i], call.alpha)
            /\ ~FracEq(ret.p_value_corrected[i], call.alpha) =>
                ret.significant[i] = CorrectionOfBatch.reject[RankAmongValid(i)]

\* A corrected p-value of 1 under an alpha of 1: rejected by the
\* correction, not marked significant.
RejectedButNotSignificant ==
    /\ CorrectedBatchCall /\ ret.status = "ok" /\ ValidPairs # {}
    /\ \E i \in ValidPairs :
        /\ FracEq(ret.p_value_corrected[i], call.alpha)
        /\ CorrectionOfBatch.reject[RankAmongValid(i)]
        /\ ~ret.significant[i]


----------------------------------------------------------------------------
(* Properties of the keys of a tier *)

\* the declared pairs of the tier whose build returned a table
BuiltPairs == {DeclaredFor(call.tier)[i] : i \in Built(DeclaredFor(call.tier))}

\* C27: analyze_crosstabs_by_tier keeps one entry per built pair: two
\* different declared pairs have different keys "<row>_x_<col>", the number
\* of returned tables is the number of declared pairs whose build
\* succeeded, and the table under the key of a built pair is the table of
\* that pair.
C27_OneEntryPerBuiltPair ==
    AnalyzeCall =>
        /\ \A p, q \in Range(DeclaredFor(call.tier)) :
            p # q => Key(p[1], p[2]) # Key(q[1], q[2])
        /\ Cardinality(DOMAIN ret.results) = Cardinality(BuiltPairs)
        /\ \A p \in BuiltPairs : ret.results[Key(p[1], p[2])] = BuildOf(p).table

\* The same for the tiers whose built pairs have different keys.  Holds.
OneEntryPerBuiltPairOfDistinctKeys ==
    (AnalyzeCall /\ \A p, q \in BuiltPairs : p # q => Key(p[1], p[2]) # Key(q[1], q[2])) =>
        /\ Cardinality(DOMAIN ret.results) = Cardinality(BuiltPairs)
        /\ \A p \in BuiltPairs : ret.results[Key(p[1], p[2])] = BuildOf(p).table

\* The pairs (a, b_x_c) and (a_x_b, c) are both built, of different
\* tables, and one table comes back under the key they share: the table of
\* the pair declared first is lost.
TableOfFirstPairOverwritten ==
    /\ AnalyzeCall /\ ret.status = "ok"
    /\ DeclaredFor(call.tier) = << <<"a", "b_x_c">>, <<"a_x_b", "c">> >>
    /\ Cardinality(BuiltPairs) = 2
    /\ DOMAIN ret.results = {"a_x_b_x_c"}
    /\ BuildOf(<<"a", "b_x_c">>).table # BuildOf(<<"a_x_b", "c">>).table
    /\ ret.results["a_x_b_x_c"] = BuildOf(<<"a_x_b", "c">>).table


----------------------------------------------------------------------------
(* Properties of the summary of an empty table *)

\* C28: get_crosstab_summary returns a summary, without raising, for
\* every table the crosstab operations produce, the empty table of
\* create_multiselect_crosstab and a table with nothing outside its total
\* row and column included; for such a table total_n is 0 and the
\* percentage of the max cell is 0.
C28_SummaryOfEveryTable ==
    SummaryCall =>
        /\ ret.status = "ok"
        /\ Interior(call.ct) = {} =>
            /\ ret.summary.total_n = 0
            /\ FracEq(ret.summary.max_cell.percentage, Frac(0, 1))

\* get_crosstab_summary raises exactly on the tables without an interior
\* cell: argmax of an empty array.  Holds.
SummaryRaisesOnEmptyInterior ==
    SummaryCall =>
        IF Interior(call.ct) = {}
        THEN ret.status = "raised" /\ ret.exc = "ValueError"
        ELSE ret.status = "ok"

\* create_multiselect_crosstab returned the empty table (no respondent
\* with a tag) and its summary raised
SummaryOfEmptyMultiselectRaised ==
    /\ SummaryCall
    /\ call.ct = EmptyDataFrame
    /\ ret.status = "raised"


----------------------------------------------------------------------------
(* Properties of the audit after the conversion *)

\* the keys of category_orders whose column the caller's dataset has, and
\* the values of that column outside the order
AuditedKeys ==
    {category_orders[k].key : k \in CheckedKeys(df, questions, category_orders)}

OrderOf(key) ==
    category_orders[CHOOSE k \in 1..Len(category_orders) :
                        category_orders[k].key = key].order

OutsideOrder(key) ==
    ActualValues(df, get_column_name(questions, key)) \ Range(OrderOf(key))

\* the audit lists the values of the raw dataset outside their order
ReportsRawValues ==
    \A key \in AuditedKeys :
        OutsideOrder(key) # {} =>
            /\ key \in DOMAIN ret.invalid_values
            /\ ret.invalid_values[key] = OutsideOrder(key)
            /\ ~ret.category_validity[key].is_valid

\* C29: a value of the raw dataset outside its declared category order is
\* listed under invalid_values, and its variable marked is_valid = false,
\* by check_data_validity on the raw dataset and just the same by
\* check_data_validity on the dataset convert_ordered_categories returned.
C29_OutsideValuesStayReported ==
    (call.op = "check_data_validity"
        /\ call.after \in {"load_raw_data", "convert_ordered_categories"}) =>
        ReportsRawValues

\* On the raw dataset the audit reports these values.  Holds.
OutsideValuesReportedOnRawDataset ==
    (call.op = "check_data_validity" /\ call.after = "load_raw_data") =>
        ReportsRawValues

\* After the conversion the audit finds every checked variable valid,
\* whatever the raw dataset held.  Holds.
NothingReportedAfterConversion ==
    (call.op = "check_data_validity" /\ call.after = "convert_ordered_categories") =>
        /\ DOMAIN ret.invalid_values = {}
        /\ \A key \in DOMAIN ret.category_validity : ret.category_validity[key].is_valid

\* Column a holds y, which the order of q1 does not list; the audit after
\* the conversion reports nothing
OutsideValueLostAfterConversion ==
    /\ call.op = "check_data_validity" /\ call.after = "convert_ordered_categories"
    /\ <<"y">> \in OutsideOrder("q1")
    /\ DOMAIN ret.invalid_values = {}
    /\ ret.category_validity["q1"].is_valid


----------------------------------------------------------------------------
(* State machine: t_test_independent and anova_test on the same groups *)

MaxObservations == 5  \* respondents of a dataset of two groups

InitGroups ==
    /\ \E n \in 0..MaxObservations :
        \E g \in [1..n -> GroupCells], v \in [1..n -> ValueCells] :
            df = [g |-> g, v |-> v]
    /\ questions = <<>>
    /\ crosstab_tiers = <<>>
    /\ pandas2 = TRUE
    /\ filters = ImportFilters
    /\ shown = <<>>
    /\ ct = EmptyDataFrame
    /\ call = NoCall
    /\ ret = NoReturn

CallTTestOnGroups ==
    /\ call = NoCall
    /\ call' = [op |-> "t_test_independent", group_var |-> "g", value_var |-> "v",
                group1 |-> X, group2 |-> Y]
    /\ ret' = t_test_independent(df, "g", "v", X, Y, NoConfig)
    /\ UNCHANGED <<df, questions, crosstab_tiers, pandas2, filters, shown, ct>>

CallAnovaOnGroups ==
    /\ call = NoCall
    /\ call' = [op |-> "anova_test", group_var |-> "g", value_var |-> "v"]
    /\ ret' = anova_test(df, "g", "v", NoConfig)
    /\ UNCHANGED <<df, questions, crosstab_tiers, pandas2, filters, shown, ct>>

NextGroups ==
    \/ CallTTestOnGroups
    \/ CallAnovaOnGroups

SpecGroups == InitGroups /\ [][NextGroups]_vars

\* the respondents of a group, and those of them with a value
MembersOf(group) == {k \in 1..Len(df["g"]) : df["g"][k] = group}
ValuedMembersOf(group) == {k \in MembersOf(group) : ~isna(df["v"][k])}

\* the group variable has exactly the two values x and y, each with at
\* least 2 respondents with a value
TwoGroupsOfTwo ==
    /\ Cardinality(ValuedMembersOf(X)) >= 2
    /\ Cardinality(ValuedMembersOf(Y)) >= 2

\* group_sizes[key] of a result of anova_test
GroupSize(result, key) ==
    result.group_sizes[CHOOSE k \in 1..Len(result.group_sizes) :
                            result.group_sizes[k].key = key].size

\* what t_test_independent returns for the two groups of the dataset
TTestOfGroups == t_test_independent(df, "g", "v", X, Y, NoConfig)

\* C30: on a dataset whose group variable has exactly two values, each
\* with at least 2 respondents with a value, anova_test reports as
\* group_sizes the n1 and n2 of t_test_independent: a missing value of the
\* value variable is counted by neither.
C30_AnovaGroupSizesAreTTestSizes ==
    (call.op = "anova_test" /\ TwoGroupsOfTwo) =>
        /\ ret.status = "ok"
        /\ TTestOfGroups.status = "ok"
        /\ GroupSize(ret, <<"x">>) = TTestOfGroups.n1
        /\ GroupSize(ret, <<"y">>) = TTestOfGroups.n2

\* anova_test counts every respondent of a group, t_test_independent the
\* respondents of the group with a value: the sizes are equal exactly when
\* no value of the two groups is missing.  Holds.
AnovaCountsMissingValues ==
    (call.op = "anova_test" /\ TwoGroupsOfTwo) =>
        /\ ret.status = "ok"
        /\ TTestOfGroups.status = "ok"
        /\ GroupSize(ret, <<"x">>) = Cardinality(MembersOf(X))
        /\ GroupSize(ret, <<"y">>) = Cardinality(MembersOf(Y))
        /\ TTestOfGroups.n1 = Cardinality(ValuedMembersOf(X))
        /\ TTestOfGroups.n2 = Cardinality(ValuedMembersOf(Y))

\* Group x has three respondents of whom one has no value: anova_test
\* reports 3, t_test_independent 2
MissingValueCountedByAnova ==
    /\ call.op = "anova_test" /\ TwoGroupsOfTwo /\ ret.status = "ok"
    /\ GroupSize(ret, <<"x">>) = 3
    /\ TTestOfGroups.n1 = 2
    /\ GroupSize(ret, <<"y">>) = 2
    /\ TTestOfGroups.n2 = 2

====
